---- MODULE Spec2Model ----
(***************************************************************************)
(* Pilog (src/app.py): the landing-to-flight correlation engine            *)
(* recompute_links, the application state it reads and publishes, and the  *)
(* request handlers and watcher callbacks that trigger it.                 *)
(*                                                                         *)
(* Conventions.  Indices are Python's: 0-based.  A Python list is a TLA+   *)
(* sequence, element i of list s is At(s, i).  A dict is a function on a   *)
(* finite set of keys.  A landing's "time" string is modelled by an        *)
(* integer code whose numeric order is the string order; the codes in      *)
(* UnparsableTimes stand for raw strings no date format accepts, every     *)
(* other code t stands for the normalised "%Y-%m-%d %H:%M:%S" string of    *)
(* second t of the day.                                                    *)
(***************************************************************************)
EXTENDS Integers, Sequences, FiniteSets, TLC

VARIABLES
    cached_flights,             \* app_state.cached_flights: <<>> is None, <<l>> is the list l
    watched_logbook,            \* parsed content of <watched_folder>/X-Plane Pilot.txt; <<>> when no folder is watched
    cached_landings,            \* app_state.cached_landings
    manual_overrides,           \* app_state.manual_overrides
    cluster_minutes,            \* app_state.cluster_minutes
    landing_links,              \* app_state.landing_links
    flight_to_landing_indices,  \* app_state.flight_to_landing_indices
    calls,                      \* number of recompute_links calls made so far (capped)
    pc,                         \* per thread: the statement it executes next
    frame,                      \* per thread: the locals of the call it is in
    links_from,                 \* history: the lists app_state.landing_links was computed from
    environ,                    \* os.environ["LANDING_CLUSTER_MINUTES"]: <<>> when unset, <<s>> the string s
    uploads,                    \* uploads/config.json and uploads/manual_links.json
    watcher_initialized,        \* app_state.watcher_initialized
    observer,                   \* app_state.observer: <<>> is None, <<id>> the Observer id
    landing_observer,           \* app_state.landing_observer
    observers,                  \* the Observer objects created and not dropped: id -> kind and status
    last,                       \* history: the last operation completed, the value it was asked to set, its HTTP status
    summary,                    \* what the last call of summarise_landings returned: <<>> before the first
    watcher_init_lock,          \* watcher_init_lock: <<>> when free, <<t>> when thread t holds it
    init_runs,                  \* history: how many calls of init_watcher_if_configured started, returned, raised
    landing_rate_path,          \* app_state.landing_rate_path: <<>> is None, <<p>> the path p
    landing_watched_folder,     \* app_state.landing_watched_folder: <<>> is None, <<d>> the folder d
    disk,                       \* the landing-rate files on disk, parsed: path -> <<>> when absent, <<l>> the list l
    emitted,                    \* history: how many "landing_rate_update" events were emitted, and the last payload
    map_cache,                  \* _MAP_DATA_CACHE: the entries [key, ts] in the order of the OrderedDict
    now,                        \* time.time()
    map_cache_lock,             \* _MAP_CACHE_LOCK: <<>> when free, <<t>> when thread t holds it
    map_call,                   \* per thread: the cache_key of the build_map_data call it is in
    map_log                     \* history: the keys in the order they were last inserted or served, and the last answer

vars == <<cached_flights, watched_logbook, cached_landings, manual_overrides,
          cluster_minutes, landing_links, flight_to_landing_indices, calls,
          pc, frame, links_from, environ, uploads, watcher_initialized,
          observer, landing_observer, observers, last, summary,
          watcher_init_lock, init_runs, landing_rate_path, landing_watched_folder,
          disk, emitted, map_cache, now, map_cache_lock, map_call, map_log>>

\* what only the threads of the first requests write
apart == <<watcher_init_lock, init_runs>>

\* the landing-rate source, its files and what is broadcast about it
sources == <<landing_rate_path, landing_watched_folder, disk, emitted>>

\* the cache of build_map_data
mapcache == <<map_cache, now, map_cache_lock, map_call, map_log>>

\* what the handlers, callbacks and steps of recompute_links leave alone when
\* no landing-rate source is set and no map is asked for
outside == <<environ, summary, apart, sources, mapcache>>

\* what the steps of recompute_links and of get_landing_data leave alone
process == <<outside, watcher_initialized, observer, landing_observer, observers, last>>

inputs == <<cached_flights, watched_logbook, cached_landings, manual_overrides,
            cluster_minutes>>

-----------------------------------------------------------------------------
(* Bounds of the model *)

MaxFlights == 2
MaxLandings == 3
MaxDeclared == 2
MaxOverrides == 1
MaxCalls == 1
MaxStarts == 3
NumThreads == 2

(* Program constants *)

DefaultClusterMinutes == 10
MinClusterMinutes == 1
MaxClusterMinutes == 60

-----------------------------------------------------------------------------
(* Python values *)

None == "None"
NoneDt == -1

At(s, i) == s[i + 1]

Range(s) == {s[i] : i \in 1..Len(s)}

EmptyDict == <<>>

DictPut(d, k, v) == [x \in (DOMAIN d) \cup {k} |-> IF x = k THEN v ELSE d[x]]

DictPop(d, k) == [x \in (DOMAIN d) \ {k} |-> d[x]]

\* d.setdefault(k, []).append(v)
SetDefaultAppend(d, k, v) ==
    DictPut(d, k, (IF k \in DOMAIN d THEN d[k] ELSE <<>>) \o <<v>>)

\* the gap taken one second too large
AbsPlusOne(x) == (IF x < 0 THEN -x ELSE x) + 1

Abs(x) == IF x < 0 THEN -x ELSE x

Min(a, b) == IF a < b THEN a ELSE b

SeqsUpTo(S, n) == UNION {[1..k -> S] : k \in 0..n}

-----------------------------------------------------------------------------
(* Records as the parsers produce them: the fields recompute_links reads *)

UnparsableTimes == {90}

ParsableTimes == {0, 180, 181, 361}

FlightRecs ==
    {[date |-> 1, norm_ac |-> "C172", landings |-> n] : n \in 0..MaxDeclared}
        \cup {[date |-> 2, norm_ac |-> "C172", landings |-> 1]}

LandingRecs ==
    {[date |-> 1, norm_ac |-> "C172", time |-> t] : t \in ParsableTimes \cup UnparsableTimes}
        \cup {[date |-> 2, norm_ac |-> "C172", time |-> 0]}

GroupKey(r) == <<r.date, r.norm_ac>>

\* get_current_flights: the watched logbook when a folder is watched, else the
\* cached list, else logs/X-Plane Pilot.txt (absent here: parse_logbook gives [])
get_current_flights(watched, cached) ==
    IF watched # <<>> THEN watched[1]
    ELSE IF cached # <<>> THEN cached[1]
    ELSE <<>>

\* a parse that accepts every string
parse_dt_safe_lenient(s) == s

\* _parse_dt_safe: seconds of the day, or None
parse_dt_safe(s) == IF s \in UnparsableTimes THEN NoneDt ELSE s

-----------------------------------------------------------------------------
(* recompute_links, grouping *)

RECURSIVE IndexSeq(_)
IndexSeq(n) == IF n = 0 THEN <<>> ELSE IndexSeq(n - 1) \o <<n - 1>>

\* list.sort(key=time): stable, ascending
RECURSIVE SortByTime(_, _)
SortByTime(idxs, landings) ==
    IF idxs = <<>> THEN <<>>
    ELSE LET n == Len(idxs)
             sorted == SortByTime(SubSeq(idxs, 1, n - 1), landings)
             t == At(landings, idxs[n]).time
         IN SelectSeq(sorted, LAMBDA j : At(landings, j).time <= t)
                \o <<idxs[n]>>
                \o SelectSeq(sorted, LAMBDA j : At(landings, j).time > t)

\* the grouping of flights without the "declares at least one landing" filter
flights_by_group_any(flights, key) ==
    SelectSeq(IndexSeq(Len(flights)), LAMBDA i : GroupKey(At(flights, i)) = key)

\* the grouping of flights that puts the flights of every group into each group
flights_by_group_every(flights, key) ==
    SelectSeq(IndexSeq(Len(flights)), LAMBDA i : At(flights, i).landings >= 1)

\* flights_by_group[key]: indices of the flights of the group that declare >= 1 landing
flights_by_group(flights, key) ==
    SelectSeq(IndexSeq(Len(flights)),
              LAMBDA i : At(flights, i).landings >= 1 /\ GroupKey(At(flights, i)) = key)

\* the group's landings left in list order (the sort by time skipped)
landings_by_group_unsorted(landings, key) ==
    SelectSeq(IndexSeq(Len(landings)), LAMBDA i : GroupKey(At(landings, i)) = key)

\* landings_by_group[key], after the sort by time
landings_by_group(landings, key) ==
    SortByTime(SelectSeq(IndexSeq(Len(landings)),
                         LAMBDA i : GroupKey(At(landings, i)) = key),
               landings)

\* landings_by_group.keys(): the keys in the order of their first landing
RECURSIVE group_keys(_)
group_keys(landings) ==
    IF landings = <<>> THEN <<>>
    ELSE LET n == Len(landings)
             before == group_keys(SubSeq(landings, 1, n - 1))
             key == GroupKey(landings[n])
         IN IF key \in Range(before) THEN before ELSE before \o <<key>>

-----------------------------------------------------------------------------
(* recompute_links, the results *)

Link(flights, fidx, conf) ==
    [flight |-> At(flights, fidx), flightIndex |-> fidx, linkConfidence |-> conf]

NoLink(conf) == [flight |-> None, linkConfidence |-> conf]

\* one assignment of the loops: landing_links[li] = ..., and for a link to a
\* flight flight_to_landing_indices.setdefault(fidx, []).append(li).
\* the assignment that leaves flight_to_landing_indices alone
AssignLinkOnly(out, flights, li, fref, conf) ==
    IF fref = <<>>
    THEN [out EXCEPT !.landing_links = DictPut(@, li, NoLink(conf))]
    ELSE [out EXCEPT !.landing_links = DictPut(@, li, Link(flights, fref[1], conf))]

\* fref is <<>> for "flight": None, <<fidx>> for a flight.
Assign(out, flights, li, fref, conf) ==
    IF fref = <<>>
    THEN [out EXCEPT !.landing_links = DictPut(@, li, NoLink(conf))]
    ELSE [landing_links |-> DictPut(out.landing_links, li, Link(flights, fref[1], conf)),
          flight_to_landing_indices |->
              SetDefaultAppend(out.flight_to_landing_indices, fref[1], li)]

\* a run of assignments <<li, fref, conf>>, in order
RECURSIVE AssignAll(_, _, _)
AssignAll(out, flights, todo) ==
    IF todo = <<>> THEN out
    ELSE AssignAll(Assign(out, flights, todo[1][1], todo[1][2], todo[1][3]),
                   flights, Tail(todo))

\* every landing of a list gets no flight and the confidence conf
NoFlightTodo(items, conf) == [i \in 1..Len(items) |-> <<items[i], <<>>, conf>>]

-----------------------------------------------------------------------------
(* recompute_links, manual overrides of one group *)

\* the override of landing li is applied: it names a flight of the current list
valid_override(overrides, li, flights) ==
    /\ li \in DOMAIN overrides
    /\ 0 <= overrides[li]
    /\ overrides[li] < Len(flights)

overridden_landings(landing_list, overrides, flights) ==
    SelectSeq(landing_list, LAMBDA li : valid_override(overrides, li, flights))

overridden_landing_indices(landing_list, overrides, flights) ==
    Range(overridden_landings(landing_list, overrides, flights))

overridden_flight_indices(landing_list, overrides, flights) ==
    {overrides[li] :
        li \in overridden_landing_indices(landing_list, overrides, flights)}

ManualTodo(landing_list, overrides, flights) ==
    LET ov == overridden_landings(landing_list, overrides, flights)
    IN [i \in 1..Len(ov) |-> <<ov[i], <<overrides[ov[i]]>>, "manual">>]

\* the working pool built without taking the overridden landings out
working_landings_all(landing_list, overrides, flights) == landing_list

\* the working pool built without any landing that has an override entry
working_landings_no_entry(landing_list, overrides, flights) ==
    SelectSeq(landing_list, LAMBDA li : li \notin DOMAIN overrides)

working_landings(landing_list, overrides, flights) ==
    SelectSeq(landing_list,
              LAMBDA li : li \notin
                  overridden_landing_indices(landing_list, overrides, flights))

\* the working pool built without taking the overridden flights out
working_flights_all(flights_list, landing_list, overrides, flights) == flights_list

working_flights(flights_list, landing_list, overrides, flights) ==
    SelectSeq(flights_list,
              LAMBDA fi : fi \notin
                  overridden_flight_indices(landing_list, overrides, flights))

-----------------------------------------------------------------------------
(* recompute_links, clustering *)

\* the loop over sorted_work: clusters closed so far, the open cluster, last_dt
RECURSIVE cluster_loop(_, _, _, _, _, _)
cluster_loop(sorted_work, landings, minutes, clusters, current, last_dt) ==
    IF sorted_work = <<>>
    THEN IF current # <<>> THEN Append(clusters, current) ELSE clusters
    ELSE LET it == Head(sorted_work)
             dt == parse_dt_safe(At(landings, it).time)
             has_delta == last_dt # NoneDt /\ dt # NoneDt
         IN IF current = <<>>
            THEN cluster_loop(Tail(sorted_work), landings, minutes, clusters, <<it>>, dt)
            ELSE IF has_delta /\ Abs(dt - last_dt) <= 60 * minutes
                 THEN cluster_loop(Tail(sorted_work), landings, minutes,
                                   clusters, Append(current, it), dt)
                 ELSE cluster_loop(Tail(sorted_work), landings, minutes,
                                   Append(clusters, current), <<it>>, dt)

make_clusters(work_landings, landings, minutes) ==
    IF Len(work_landings) > 0
    THEN cluster_loop(SortByTime(work_landings, landings), landings, minutes,
                      <<>>, <<>>, NoneDt)
    ELSE <<>>

\* int(max(0, flight["landings"]))
declared(flights, fi) ==
    IF At(flights, fi).landings > 0 THEN At(flights, fi).landings ELSE 0

RECURSIVE total_declared(_, _)
total_declared(work_flights, flights) ==
    IF work_flights = <<>> THEN 0
    ELSE declared(flights, Head(work_flights)) + total_declared(Tail(work_flights), flights)

\* the walk "for fref in working_flights: for _ in range(k)": the flight that
\* takes the 1st, 2nd, ... cluster or landing
RECURSIVE takers(_, _)
takers(work_flights, flights) ==
    IF work_flights = <<>> THEN <<>>
    ELSE [i \in 1..declared(flights, Head(work_flights)) |-> Head(work_flights)]
            \o takers(Tail(work_flights), flights)

\* the landings of clusters 1..n, cluster c linked to the flight owner[c]
RECURSIVE ClusterTodo(_, _, _, _)
ClusterTodo(clusters, owner, n, conf) ==
    IF n = 0 THEN <<>>
    ELSE ClusterTodo(clusters, owner, n - 1, conf)
            \o [i \in 1..Len(clusters[n]) |-> <<clusters[n][i], <<owner[n]>>, conf>>]

-----------------------------------------------------------------------------
(* recompute_links, the cascade of one group *)

\* Case A with every cluster given to the first working flight
CaseClusterSequenceFirst(out, flights, work_flights, clusters) ==
    AssignAll(out, flights,
              ClusterTodo(clusters, [c \in 1..Len(clusters) |-> work_flights[1]],
                          Len(clusters), "cluster-sequence"))

\* Case A: one cluster per working flight
CaseClusterSequence(out, flights, work_flights, clusters) ==
    AssignAll(out, flights,
              ClusterTodo(clusters, work_flights, Len(clusters), "cluster-sequence"))

\* Case B with every flight taking one cluster, whatever it declares
CaseClusterAssignedOneEach(out, flights, work_flights, work_landings, clusters) ==
    LET owner == work_flights
        ci == Min(Len(owner), Len(clusters))
        linked == AssignAll(out, flights,
                            ClusterTodo(clusters, owner, ci, "cluster-assigned"))
        left == SelectSeq(work_landings,
                          LAMBDA li : li \notin DOMAIN linked.landing_links)
    IN AssignAll(linked, flights, NoFlightTodo(left, "ambiguous"))

\* Case B: each flight takes as many clusters as it declares landings
CaseClusterAssigned(out, flights, work_flights, work_landings, clusters) ==
    LET owner == takers(work_flights, flights)
        ci == Min(Len(owner), Len(clusters))
        linked == AssignAll(out, flights,
                            ClusterTodo(clusters, owner, ci, "cluster-assigned"))
        left == SelectSeq(work_landings,
                          LAMBDA li : li \notin DOMAIN linked.landing_links)
    IN AssignAll(linked, flights, NoFlightTodo(left, "ambiguous"))

\* Heuristic 3 with every flight taking one landing, whatever it declares
CaseCountAssignedOneEach(out, flights, work_flights, work_landings) ==
    LET owner == work_flights
        ll_work == Len(work_landings)
        cursor == Min(Len(owner), ll_work)
    IN AssignAll(out, flights,
                 [r \in 1..cursor |-> <<work_landings[r], <<owner[r]>>, "count-assigned">>]
                    \o NoFlightTodo(SubSeq(work_landings, cursor + 1, ll_work), "ambiguous"))

\* Heuristic 3: each flight takes as many landings as it declares
CaseCountAssigned(out, flights, work_flights, work_landings) ==
    LET owner == takers(work_flights, flights)
        ll_work == Len(work_landings)
        cursor == Min(Len(owner), ll_work)
    IN AssignAll(out, flights,
                 [r \in 1..cursor |-> <<work_landings[r], <<owner[r]>>, "count-assigned">>]
                    \o NoFlightTodo(SubSeq(work_landings, cursor + 1, ll_work), "ambiguous"))

\* the cascade with the count-based distribution tried before the clustering
CascadeCountFirst(out, flights, landings, work_flights, work_landings, minutes) ==
    LET lf_work == Len(work_flights)
        ll_work == Len(work_landings)
        clusters == make_clusters(work_landings, landings, minutes)
        total_clusters == Len(clusters)
        declared_sum == total_declared(work_flights, flights)
    IN IF lf_work = 0 /\ ll_work > 0
       THEN AssignAll(out, flights, NoFlightTodo(work_landings, "unmatched"))
       ELSE IF lf_work = 1 /\ ll_work = 1
       THEN Assign(out, flights, work_landings[1], <<work_flights[1]>>,
                   "unique-date-aircraft")
       ELSE IF lf_work = ll_work /\ lf_work > 0
       THEN AssignAll(out, flights,
                      [i \in 1..ll_work |->
                          <<work_landings[i], <<work_flights[i]>>, "sequence-assumed">>])
       ELSE IF 0 < ll_work /\ ll_work = declared_sum /\ declared_sum > 0
       THEN CaseCountAssigned(out, flights, work_flights, work_landings)
       ELSE IF clusters # <<>> /\ total_clusters = lf_work /\ lf_work > 0
       THEN CaseClusterSequence(out, flights, work_flights, clusters)
       ELSE IF clusters # <<>> /\ declared_sum = total_clusters /\ declared_sum > 0
       THEN CaseClusterAssigned(out, flights, work_flights, work_landings, clusters)
       ELSE AssignAll(out, flights, NoFlightTodo(work_landings, "ambiguous"))

\* the cascade without the "counts equal" rule
CascadeNoSequence(out, flights, landings, work_flights, work_landings, minutes) ==
    LET lf_work == Len(work_flights)
        ll_work == Len(work_landings)
        clusters == make_clusters(work_landings, landings, minutes)
        total_clusters == Len(clusters)
        declared_sum == total_declared(work_flights, flights)
    IN IF lf_work = 0 /\ ll_work > 0
       THEN AssignAll(out, flights, NoFlightTodo(work_landings, "unmatched"))
       ELSE IF lf_work = 1 /\ ll_work = 1
       THEN Assign(out, flights, work_landings[1], <<work_flights[1]>>,
                   "unique-date-aircraft")
       ELSE IF clusters # <<>> /\ total_clusters = lf_work /\ lf_work > 0
       THEN CaseClusterSequence(out, flights, work_flights, clusters)
       ELSE IF clusters # <<>> /\ declared_sum = total_clusters /\ declared_sum > 0
       THEN CaseClusterAssigned(out, flights, work_flights, work_landings, clusters)
       ELSE IF 0 < ll_work /\ ll_work = declared_sum /\ declared_sum > 0
       THEN CaseCountAssigned(out, flights, work_flights, work_landings)
       ELSE AssignAll(out, flights, NoFlightTodo(work_landings, "ambiguous"))

\* the cascade without the one-flight-one-landing rule
CascadeNoUnique(out, flights, landings, work_flights, work_landings, minutes) ==
    LET lf_work == Len(work_flights)
        ll_work == Len(work_landings)
        clusters == make_clusters(work_landings, landings, minutes)
        total_clusters == Len(clusters)
        declared_sum == total_declared(work_flights, flights)
    IN IF lf_work = 0 /\ ll_work > 0
       THEN AssignAll(out, flights, NoFlightTodo(work_landings, "unmatched"))
       ELSE IF lf_work = ll_work /\ lf_work > 0
       THEN AssignAll(out, flights,
                      [i \in 1..ll_work |->
                          <<work_landings[i], <<work_flights[i]>>, "sequence-assumed">>])
       ELSE IF clusters # <<>> /\ total_clusters = lf_work /\ lf_work > 0
       THEN CaseClusterSequence(out, flights, work_flights, clusters)
       ELSE IF clusters # <<>> /\ declared_sum = total_clusters /\ declared_sum > 0
       THEN CaseClusterAssigned(out, flights, work_flights, work_landings, clusters)
       ELSE IF 0 < ll_work /\ ll_work = declared_sum /\ declared_sum > 0
       THEN CaseCountAssigned(out, flights, work_flights, work_landings)
       ELSE AssignAll(out, flights, NoFlightTodo(work_landings, "ambiguous"))

\* the cascade whose fallback marks the landings "unmatched"
CascadeFallbackUnmatched(out, flights, landings, work_flights, work_landings, minutes) ==
    LET lf_work == Len(work_flights)
        ll_work == Len(work_landings)
        clusters == make_clusters(work_landings, landings, minutes)
        total_clusters == Len(clusters)
        declared_sum == total_declared(work_flights, flights)
    IN IF lf_work = 0 /\ ll_work > 0
       THEN AssignAll(out, flights, NoFlightTodo(work_landings, "unmatched"))
       ELSE IF lf_work = 1 /\ ll_work = 1
       THEN Assign(out, flights, work_landings[1], <<work_flights[1]>>,
                   "unique-date-aircraft")
       ELSE IF lf_work = ll_work /\ lf_work > 0
       THEN AssignAll(out, flights,
                      [i \in 1..ll_work |->
                          <<work_landings[i], <<work_flights[i]>>, "sequence-assumed">>])
       ELSE IF clusters # <<>> /\ total_clusters = lf_work /\ lf_work > 0
       THEN CaseClusterSequence(out, flights, work_flights, clusters)
       ELSE IF clusters # <<>> /\ declared_sum = total_clusters /\ declared_sum > 0
       THEN CaseClusterAssigned(out, flights, work_flights, work_landings, clusters)
       ELSE IF 0 < ll_work /\ ll_work = declared_sum /\ declared_sum > 0
       THEN CaseCountAssigned(out, flights, work_flights, work_landings)
       ELSE AssignAll(out, flights, NoFlightTodo(work_landings, "unmatched"))

\* the heuristics over the working pools of one group
Cascade(out, flights, landings, work_flights, work_landings, minutes) ==
    LET lf_work == Len(work_flights)
        ll_work == Len(work_landings)
        clusters == make_clusters(work_landings, landings, minutes)
        total_clusters == Len(clusters)
        declared_sum == total_declared(work_flights, flights)
    IN IF lf_work = 0 /\ ll_work > 0
       THEN AssignAll(out, flights, NoFlightTodo(work_landings, "unmatched"))
       ELSE IF lf_work = 1 /\ ll_work = 1
       THEN Assign(out, flights, work_landings[1], <<work_flights[1]>>,
                   "unique-date-aircraft")
       ELSE IF lf_work = ll_work /\ lf_work > 0
       THEN AssignAll(out, flights,
                      [i \in 1..ll_work |->
                          <<work_landings[i], <<work_flights[i]>>, "sequence-assumed">>])
       ELSE IF clusters # <<>> /\ total_clusters = lf_work /\ lf_work > 0
       THEN CaseClusterSequence(out, flights, work_flights, clusters)
       ELSE IF clusters # <<>> /\ declared_sum = total_clusters /\ declared_sum > 0
       THEN CaseClusterAssigned(out, flights, work_flights, work_landings, clusters)
       ELSE IF 0 < ll_work /\ ll_work = declared_sum /\ declared_sum > 0
       THEN CaseCountAssigned(out, flights, work_flights, work_landings)
       ELSE AssignAll(out, flights, NoFlightTodo(work_landings, "ambiguous"))

\* one iteration of "for key, landing_list in landings_by_group.items()"
ProcessGroup(out, key, flights, landings, overrides, minutes) ==
    LET flights_list == flights_by_group(flights, key)
        landing_list == landings_by_group(landings, key)
    IN IF Len(flights_list) = 0
       THEN AssignAll(out, flights, NoFlightTodo(landing_list, "unmatched"))
       ELSE Cascade(AssignAll(out, flights, ManualTodo(landing_list, overrides, flights)),
                    flights, landings,
                    working_flights(flights_list, landing_list, overrides, flights),
                    working_landings(landing_list, overrides, flights),
                    minutes)

NoLinks == [landing_links |-> EmptyDict, flight_to_landing_indices |-> EmptyDict]

RECURSIVE ProcessGroups(_, _, _, _, _, _)
ProcessGroups(out, keys, flights, landings, overrides, minutes) ==
    IF keys = <<>> THEN out
    ELSE ProcessGroups(ProcessGroup(out, Head(keys), flights, landings, overrides, minutes),
                       Tail(keys), flights, landings, overrides, minutes)

\* the two maps recompute_links builds from one snapshot of its inputs
compute_links(flights, landings, overrides, minutes) ==
    ProcessGroups(NoLinks, group_keys(landings), flights, landings, overrides, minutes)

-----------------------------------------------------------------------------
(* The application state, with the files under uploads/ and the Observer      *)
(* objects, as one record, and the calls as functions on it                  *)

app_state ==
    [cached_flights |-> cached_flights,
     watched_logbook |-> watched_logbook,
     cached_landings |-> cached_landings,
     manual_overrides |-> manual_overrides,
     cluster_minutes |-> cluster_minutes,
     landing_links |-> landing_links,
     flight_to_landing_indices |-> flight_to_landing_indices,
     watcher_initialized |-> watcher_initialized,
     observer |-> observer,
     landing_observer |-> landing_observer,
     observers |-> observers,
     uploads |-> uploads,
     last |-> last]

Is(s) ==
    /\ cached_flights = s.cached_flights
    /\ watched_logbook = s.watched_logbook
    /\ cached_landings = s.cached_landings
    /\ manual_overrides = s.manual_overrides
    /\ cluster_minutes = s.cluster_minutes
    /\ landing_links = s.landing_links
    /\ flight_to_landing_indices = s.flight_to_landing_indices
    /\ watcher_initialized = s.watcher_initialized
    /\ observer = s.observer
    /\ landing_observer = s.landing_observer
    /\ observers = s.observers
    /\ uploads = s.uploads
    /\ last = s.last

Becomes(s) ==
    /\ cached_flights' = s.cached_flights
    /\ watched_logbook' = s.watched_logbook
    /\ cached_landings' = s.cached_landings
    /\ manual_overrides' = s.manual_overrides
    /\ cluster_minutes' = s.cluster_minutes
    /\ landing_links' = s.landing_links
    /\ flight_to_landing_indices' = s.flight_to_landing_indices
    /\ watcher_initialized' = s.watcher_initialized
    /\ observer' = s.observer
    /\ landing_observer' = s.landing_observer
    /\ observers' = s.observers
    /\ uploads' = s.uploads
    /\ last' = s.last

current_flights(s) == get_current_flights(s.watched_logbook, s.cached_flights)

\* recompute_links sorting the cached landing list itself by time
recompute_links_sorting_cache(s) ==
    LET sorted == SortByTime(IndexSeq(Len(s.cached_landings)), s.cached_landings)
        landings == [i \in 1..Len(sorted) |-> At(s.cached_landings, sorted[i])]
        out == compute_links(current_flights(s), landings,
                             s.manual_overrides, s.cluster_minutes)
    IN [s EXCEPT !.cached_landings = landings,
                 !.landing_links = out.landing_links,
                 !.flight_to_landing_indices = out.flight_to_landing_indices]

\* recompute_links filling the published maps instead of new ones
recompute_links_incremental(s) ==
    LET flights == current_flights(s)
        out == ProcessGroups([landing_links |-> s.landing_links,
                              flight_to_landing_indices |-> s.flight_to_landing_indices],
                             group_keys(s.cached_landings), flights, s.cached_landings,
                             s.manual_overrides, s.cluster_minutes)
    IN [s EXCEPT !.landing_links = out.landing_links,
                 !.flight_to_landing_indices = out.flight_to_landing_indices]

\* recompute_links run to completion with nothing else running
recompute_links(s) ==
    LET out == compute_links(current_flights(s), s.cached_landings,
                             s.manual_overrides, s.cluster_minutes)
    IN [s EXCEPT !.landing_links = out.landing_links,
                 !.flight_to_landing_indices = out.flight_to_landing_indices]

-----------------------------------------------------------------------------
(* The environment variable, the files under uploads/, the Observer objects *)

IntLiterals == -1..61

\* int(s) for a string: <<n>>, or <<>> for ValueError
int_of(str) ==
    IF \E n \in IntLiterals : ToString(n) = str
    THEN <<CHOOSE n \in IntLiterals : ToString(n) = str>>
    ELSE <<>>

\* AppState._load_cluster_minutes: int(os.getenv('LANDING_CLUSTER_MINUTES', '10')),
\* 10 on ValueError
load_cluster_minutes(env) ==
    IF env = <<>> THEN DefaultClusterMinutes
    ELSE IF int_of(env[1]) = <<>> THEN DefaultClusterMinutes
    ELSE int_of(env[1])[1]

NoUploads == [config_json |-> <<>>, manual_links_json |-> <<>>]

\* _persist_config: {"cluster_minutes": n} written to uploads/config.json
persist_config(s) == [s EXCEPT !.uploads.config_json = <<s.cluster_minutes>>]

\* _load_config: the file's value is taken when it is in [1, 60]
load_config(s) ==
    IF s.uploads.config_json = <<>> THEN s
    ELSE LET cm == s.uploads.config_json[1]
         IN IF 1 <= cm /\ cm <= 60 THEN [s EXCEPT !.cluster_minutes = cm] ELSE s

\* json.dump of a dict with int keys: the keys become strings
json_dump(mapping) ==
    [k \in {ToString(li) : li \in DOMAIN mapping} |->
        mapping[CHOOSE li \in DOMAIN mapping : ToString(li) = k]]

\* _persist_manual_links
persist_manual_links(s) ==
    [s EXCEPT !.uploads.manual_links_json = <<json_dump(s.manual_overrides)>>]

\* _load_persisted_manual_links: {int(k): int(v) for k, v in data.items()},
\* {} when the file is absent
load_persisted_manual_links(files) ==
    IF files.manual_links_json = <<>> THEN EmptyDict
    ELSE LET data == files.manual_links_json[1]
         IN [li \in {int_of(k)[1] : k \in DOMAIN data} |-> data[ToString(li)]]

\* the id of a new Observer object
NewObserver(obs) ==
    CHOOSE id \in 1..Cardinality(DOMAIN obs) + 1 :
        /\ id \notin DOMAIN obs
        /\ \A j \in 1..id - 1 : j \in DOMAIN obs

\* start_watcher with nothing else running: the observer in app_state.observer
\* is stopped and joined, a new one is created, scheduled and started
start_watcher(s) ==
    LET left == IF s.observer = <<>> THEN s.observers
                ELSE DictPop(s.observers, s.observer[1])
        id == NewObserver(left)
    IN [s EXCEPT !.observer = <<id>>,
                 !.observers = DictPut(left, id, [kind |-> "logbook", status |-> "running"])]

NoLast == [op |-> "none", arg |-> <<>>, status |-> 0]

\* the operation op with the arguments arg has completed with the HTTP status
Responded(s, op, arg, status) ==
    [s EXCEPT !.last = [op |-> op, arg |-> arg, status |-> status]]

\* init_watcher_if_configured leaving the persisted overrides unread
init_watcher_without_overrides(s) == recompute_links(load_config(s))

\* init_watcher_if_configured, with no persisted watched folder or landing-rate
\* path and no logs/LandingRate.log: _load_config, the persisted overrides,
\* recompute_links
init_watcher_if_configured(s) ==
    recompute_links([load_config(s) EXCEPT
                        !.manual_overrides = load_persisted_manual_links(s.uploads)])

\* ensure_watcher_initialized, the before_request hook of the first request
ensure_watcher_initialized(s) ==
    IF s.watcher_initialized THEN s
    ELSE Responded([init_watcher_if_configured(s) EXCEPT !.watcher_initialized = TRUE],
                   "init", <<>>, 0)

\* "app_state = AppState()" in a new process: the files under uploads/ stay
AppState(env, files) ==
    [cached_flights |-> <<>>,
     watched_logbook |-> <<>>,
     cached_landings |-> <<>>,
     manual_overrides |-> EmptyDict,
     cluster_minutes |-> load_cluster_minutes(env),
     landing_links |-> EmptyDict,
     flight_to_landing_indices |-> EmptyDict,
     watcher_initialized |-> FALSE,
     observer |-> <<>>,
     landing_observer |-> <<>>,
     observers |-> EmptyDict,
     uploads |-> files,
     last |-> NoLast]

-----------------------------------------------------------------------------
(* The request handlers and watcher callbacks, each run to completion with   *)
(* nothing else running, as functions on the application state               *)

\* the upload storing the list without the recompute
upload_landing_rate_no_recompute(s, landings) ==
    Responded([s EXCEPT !.cached_landings = landings], "upload_landing_rate", <<>>, 200)

\* POST /upload_landing_rate, set_landing_rate_file, set_landing_rate_folder and
\* LandingRateHandler._maybe_refresh: the parsed list replaces cached_landings
upload_landing_rate(s, landings) ==
    Responded(recompute_links([s EXCEPT !.cached_landings = landings]),
              "upload_landing_rate", <<>>, 200)

\* POST / with a logbook file: cached_flights replaced, then broadcast_update
dashboard_upload(s, flights) ==
    Responded(recompute_links([s EXCEPT !.cached_flights = <<flights>>]),
              "dashboard", <<>>, 200)

\* POST /set_folder: the folder's logbook becomes the watched one, start_watcher,
\* broadcast_update
set_folder(s, flights) ==
    Responded(recompute_links(start_watcher([s EXCEPT !.watched_logbook = <<flights>>,
                                                      !.cached_flights = <<flights>>])),
              "set_folder", <<>>, 200)

\* LogbookHandler.on_modified for the watched logbook, whose content is now flights
on_modified(s, flights) ==
    Responded(recompute_links([s EXCEPT !.watched_logbook = <<flights>>,
                                        !.cached_flights = <<flights>>]),
              "on_modified", <<>>, 0)

\* POST /links/resolve
resolve_link(s, li, fi) ==
    Responded(recompute_links(persist_manual_links(
                  [s EXCEPT !.manual_overrides = DictPut(@, li, fi)])),
              "resolve_link", <<li, fi>>, 200)

\* POST /links/clear with a landing_index
clear_override(s, li) ==
    Responded(recompute_links(persist_manual_links(
                  [s EXCEPT !.manual_overrides = DictPop(@, li)])),
              "clear_override", <<li>>, 200)

\* the clearing of all overrides without the recompute
clear_all_overrides_no_recompute(s) ==
    Responded(persist_manual_links([s EXCEPT !.manual_overrides = EmptyDict]),
              "clear_all_overrides", <<>>, 200)

\* POST /links/clear without a landing_index
clear_all_overrides(s) ==
    Responded(recompute_links(persist_manual_links(
                  [s EXCEPT !.manual_overrides = EmptyDict])),
              "clear_all_overrides", <<>>, 200)

\* POST /config/cluster without the range check
set_cluster_minutes_unchecked(s, minutes) ==
    Responded(recompute_links(persist_config([s EXCEPT !.cluster_minutes = minutes])),
              "set_cluster_minutes", <<minutes>>, 200)

\* POST /config/cluster: a value outside [1, 60] is answered 400 and changes nothing
set_cluster_minutes(s, minutes) ==
    IF minutes < MinClusterMinutes \/ minutes > MaxClusterMinutes
    THEN Responded(s, "set_cluster_minutes", <<minutes>>, 400)
    ELSE Responded(recompute_links(persist_config([s EXCEPT !.cluster_minutes = minutes])),
                   "set_cluster_minutes", <<minutes>>, 200)

-----------------------------------------------------------------------------
(* Threads: none is running in Spec and SpecLinks *)

Threads == 1..NumThreads

NoResp == [landings |-> <<>>, links |-> EmptyDict, index |-> EmptyDict,
           links_from |-> [flights |-> <<>>, landings |-> <<>>]]

\* kind: which watcher the start call the thread is in starts.
\* ov_live: the local manual_overrides still is the dict app_state.manual_overrides
\* refers to; ov_old: the content of the dict it refers to otherwise.
\* used_overrides, used_minutes: history, the override mappings and cluster
\* windows this execution of recompute_links has read so far.
NoFrame ==
    [flights |-> <<>>, landings |-> <<>>, ov_live |-> TRUE, ov_old |-> EmptyDict,
     keys |-> <<>>, out |-> NoLinks,
     used_overrides |-> {}, used_minutes |-> {},
     kind |-> "none",
     resp |-> NoResp]

NoRuns == [started |-> 0, returned |-> 0, raised |-> 0]

LANDING_RATE_FILENAME == "LandingRate.log"

Dirs == {"logs", "sim"}

\* the landing-rate files there can be: LandingRate.log in either folder and
\* a file of another name
DiskPaths ==
    {[dir |-> d, base |-> LANDING_RATE_FILENAME] : d \in Dirs}
        \cup {[dir |-> "sim", base |-> "rates.csv"]}

NoEmit == [count |-> 0, payload |-> <<>>]

\* no landing-rate source set, no landing-rate file on disk, nothing emitted
NoSources ==
    /\ landing_rate_path = <<>>
    /\ landing_watched_folder = <<>>
    /\ disk = [p \in DiskPaths |-> <<>>]
    /\ emitted = NoEmit

\* _MAP_DATA_CACHE = OrderedDict(), no call of build_map_data made
NoMapCalls ==
    /\ map_cache = <<>>
    /\ now = 1
    /\ map_cache_lock = <<>>
    /\ map_call = [t \in Threads |-> <<>>]
    /\ map_log = [recent |-> <<>>, answer |-> <<>>]

NoFirstRequests ==
    /\ watcher_init_lock = <<>>
    /\ init_runs = NoRuns

NoThreads ==
    /\ NoFirstRequests
    /\ NoSources
    /\ NoMapCalls
    /\ pc = [t \in Threads |-> "idle"]
    /\ frame = [t \in Threads |-> NoFrame]
    /\ links_from = [flights |-> <<>>, landings |-> <<>>]

\* no environment variable, nothing under uploads/, no Observer created
CleanStart ==
    /\ environ = <<>>
    /\ summary = <<>>
    /\ uploads = NoUploads
    /\ observer = <<>>
    /\ landing_observer = <<>>
    /\ observers = EmptyDict
    /\ last = NoLast

-----------------------------------------------------------------------------
(* The application, one request or watcher event at a time *)

SysFlightRecs == {[date |-> 1, norm_ac |-> "C172", landings |-> 1]}

SysLandingRecs == {[date |-> 1, norm_ac |-> "C172", time |-> t] : t \in {0, 180}}

SysFlightLists == SeqsUpTo(SysFlightRecs, MaxFlights)

\* one landing fewer than the requests to /links/resolve can name
SysLandingLists == SeqsUpTo(SysLandingRecs, MaxLandings - 1)

MinutesRequests == {0, 1, DefaultClusterMinutes, 61}

\* the state after "app_state = AppState()"
Init ==
    /\ cached_flights = <<>>
    /\ watched_logbook = <<>>
    /\ cached_landings = <<>>
    /\ manual_overrides = EmptyDict
    /\ cluster_minutes = DefaultClusterMinutes
    /\ landing_links = EmptyDict
    /\ flight_to_landing_indices = EmptyDict
    /\ calls = 0
    /\ NoThreads
    /\ CleanStart
    /\ watcher_initialized = FALSE

Handled(s) == Becomes(s) /\ UNCHANGED <<calls, pc, frame, links_from, outside>>

\* a request is served after the before_request hook has run
Request(s) == watcher_initialized /\ Handled(s)

\* the first request: ensure_watcher_initialized runs init_watcher_if_configured
EnsureWatcherInitialized ==
    /\ ~watcher_initialized
    /\ Handled(ensure_watcher_initialized(app_state))

UploadLandingRate ==
    \E landings \in SysLandingLists : Request(upload_landing_rate(app_state, landings))

DashboardUpload ==
    \E flights \in SysFlightLists : Request(dashboard_upload(app_state, flights))

SetFolder ==
    \E flights \in SysFlightLists : Request(set_folder(app_state, flights))

OnModified ==
    /\ watched_logbook # <<>>
    /\ \E flights \in SysFlightLists : Handled(on_modified(app_state, flights))

ResolveLink ==
    \E li \in 0..MaxLandings - 1, fi \in -1..MaxFlights :
        /\ Cardinality(DOMAIN manual_overrides \cup {li}) <= MaxOverrides
        /\ Request(resolve_link(app_state, li, fi))

ClearOverride ==
    \E li \in 0..MaxLandings - 1 : Request(clear_override(app_state, li))

ClearAllOverrides == Request(clear_all_overrides(app_state))

SetClusterMinutes ==
    \E minutes \in MinutesRequests : Request(set_cluster_minutes(app_state, minutes))

Next ==
    \/ EnsureWatcherInitialized
    \/ UploadLandingRate
    \/ DashboardUpload
    \/ SetFolder
    \/ OnModified
    \/ ResolveLink
    \/ ClearOverride
    \/ ClearAllOverrides
    \/ SetClusterMinutes

Spec == Init /\ [][Next]_vars

-----------------------------------------------------------------------------
(* The matching engine on its own: any inputs, then recompute_links *)

FlightLists == SeqsUpTo(FlightRecs, MaxFlights)

LandingLists == SeqsUpTo(LandingRecs, MaxLandings)

OverrideMaps ==
    UNION {[K -> -1..MaxFlights] :
              K \in {X \in SUBSET (0..MaxLandings - 1) : Cardinality(X) <= MaxOverrides}}

ClusterChoices == {1, 3, DefaultClusterMinutes}

InitLinks ==
    /\ cached_flights \in {<<fl>> : fl \in FlightLists}
    /\ watched_logbook = <<>>
    /\ cached_landings \in LandingLists
    /\ manual_overrides \in OverrideMaps
    /\ cluster_minutes \in ClusterChoices
    /\ landing_links = EmptyDict
    /\ flight_to_landing_indices = EmptyDict
    /\ calls = 0
    /\ NoThreads
    /\ CleanStart
    /\ watcher_initialized = TRUE

RecomputeLinks ==
    /\ calls' = Min(calls + 1, MaxCalls)
    /\ Becomes(recompute_links(app_state))
    /\ UNCHANGED <<pc, frame, links_from, outside>>

NextLinks == RecomputeLinks

SpecLinks == InitLinks /\ [][NextLinks]_vars

-----------------------------------------------------------------------------
(* The matching engine called again: on the same inputs, and on the inputs    *)
(* with two records exchanged in a list and the overrides following them      *)

\* the list with the elements at (0-based) positions i and j exchanged
Swap(list, i, j) ==
    [p \in 1..Len(list) |-> IF p = i + 1 THEN list[j + 1]
                            ELSE IF p = j + 1 THEN list[i + 1]
                            ELSE list[p]]

\* where the element at position k is after the exchange
SwapIndex(i, j, k) == IF k = i THEN j ELSE IF k = j THEN i ELSE k

\* the overrides naming the same landings after the exchange in the landing list
rekey_landings(overrides, i, j) ==
    [li \in {SwapIndex(i, j, k) : k \in DOMAIN overrides} |->
        overrides[SwapIndex(i, j, li)]]

\* the overrides naming the same flights after the exchange in the flight list
rekey_flights(overrides, i, j) ==
    [li \in DOMAIN overrides |-> SwapIndex(i, j, overrides[li])]

\* recompute_links called with the inputs as they are, up to once more than
\* RecomputeLinks counts
RecomputeLinksAgain ==
    /\ calls <= MaxCalls
    /\ calls' = calls + 1
    /\ Becomes(recompute_links(app_state))
    /\ UNCHANGED <<pc, frame, links_from, outside>>

SwapLandings ==
    /\ calls = MaxCalls
    /\ \E i, j \in 0..Len(cached_landings) - 1 :
          /\ i < j
          /\ Becomes(recompute_links(
                 [app_state EXCEPT !.cached_landings = Swap(@, i, j),
                                   !.manual_overrides = rekey_landings(@, i, j)]))
    /\ UNCHANGED <<calls, pc, frame, links_from, outside>>

SwapFlights ==
    /\ calls = MaxCalls
    /\ \E i, j \in 0..Len(cached_flights[1]) - 1 :
          /\ i < j
          /\ Becomes(recompute_links(
                 [app_state EXCEPT !.cached_flights = <<Swap(@[1], i, j)>>,
                                   !.manual_overrides = rekey_flights(@, i, j)]))
    /\ UNCHANGED <<calls, pc, frame, links_from, outside>>

NextAgain ==
    \/ RecomputeLinksAgain
    \/ SwapLandings
    \/ SwapFlights

SpecAgain == InitLinks /\ [][NextAgain]_vars

-----------------------------------------------------------------------------
(* The application over several runs of the process: LANDING_CLUSTER_MINUTES  *)
(* is whatever the environment holds, the files under uploads/ are those the  *)
(* earlier runs have written                                                  *)

EnvValues == {<<>>, <<"0">>, <<"30">>, <<"61">>, <<"abc">>}

BootFlights == <<[date |-> 1, norm_ac |-> "C172", landings |-> 1]>>

BootLandings == <<[date |-> 1, norm_ac |-> "C172", time |-> 0]>>

\* the first run: "app_state = AppState()" with nothing under uploads/
InitBoot ==
    /\ environ \in EnvValues
    /\ summary = <<>>
    /\ Is(AppState(environ, NoUploads))
    /\ calls = 0
    /\ NoThreads

\* the process is started again
Restart == Handled(AppState(environ, uploads))

BootUploadLandingRate == Request(upload_landing_rate(app_state, BootLandings))

BootDashboardUpload == Request(dashboard_upload(app_state, BootFlights))

NextBoot ==
    \/ EnsureWatcherInitialized
    \/ BootUploadLandingRate
    \/ BootDashboardUpload
    \/ ResolveLink
    \/ ClearOverride
    \/ ClearAllOverrides
    \/ SetClusterMinutes
    \/ Restart

SpecBoot == InitBoot /\ [][NextBoot]_vars

-----------------------------------------------------------------------------
(* start_watcher and start_landing_rate_watcher called from threads, one      *)
(* statement a step: every statement reads app_state.observer (or             *)
(* app_state.landing_observer) again, and no lock is held.  An Observer is    *)
(* "new" until started, "running" until stop() is called, "stopping" until    *)
(* its thread has exited, then "stopped".                                     *)

Kinds == {"logbook", "landing"}

\* app_state.observer for start_watcher, app_state.landing_observer for
\* start_landing_rate_watcher
slot(kind) == IF kind = "logbook" THEN observer ELSE landing_observer

SetSlot(kind, ref) ==
    IF kind = "logbook"
    THEN observer' = ref /\ UNCHANGED landing_observer
    ELSE landing_observer' = ref /\ UNCHANGED observer

WatcherStep(t, to) ==
    /\ pc' = [pc EXCEPT ![t] = to]
    /\ UNCHANGED <<inputs, landing_links, flight_to_landing_indices, links_from,
                   uploads, outside, watcher_initialized, last>>

InitWatchers ==
    /\ cached_flights = <<>>
    /\ watched_logbook = <<>>
    /\ cached_landings = <<>>
    /\ manual_overrides = EmptyDict
    /\ cluster_minutes = DefaultClusterMinutes
    /\ landing_links = EmptyDict
    /\ flight_to_landing_indices = EmptyDict
    /\ calls = 0
    /\ NoThreads
    /\ CleanStart
    /\ watcher_initialized = TRUE

\* a handler calls start_watcher or start_landing_rate_watcher
SwCall(t) ==
    /\ pc[t] = "idle"
    /\ calls < MaxStarts
    /\ calls' = calls + 1
    /\ \E kind \in Kinds : frame' = [frame EXCEPT ![t].kind = kind]
    /\ WatcherStep(t, "sw_check")
    /\ UNCHANGED <<observer, landing_observer, observers>>

\* "if app_state.observer is not None:"
SwCheck(t) ==
    /\ pc[t] = "sw_check"
    /\ WatcherStep(t, IF slot(frame[t].kind) = <<>> THEN "sw_create" ELSE "sw_stop")
    /\ UNCHANGED <<calls, frame, observer, landing_observer, observers>>

\* "app_state.observer.stop()": AttributeError when it is None by now, caught
SwStop(t) ==
    /\ pc[t] = "sw_stop"
    /\ LET ref == slot(frame[t].kind)
       IN IF ref = <<>>
          THEN /\ WatcherStep(t, "sw_clear")
               /\ UNCHANGED observers
          ELSE /\ WatcherStep(t, "sw_join")
               /\ observers' =
                     [observers EXCEPT ![ref[1]].status =
                         IF @ = "running" THEN "stopping"
                         ELSE IF @ = "new" THEN "stopped"
                         ELSE @]
    /\ UNCHANGED <<calls, frame, observer, landing_observer>>

\* "app_state.observer.join(timeout=2)": returns when the Observer's thread
\* has exited or after 2 seconds; raises when it is None by now or was never
\* started, caught
SwJoin(t) ==
    /\ pc[t] = "sw_join"
    /\ LET ref == slot(frame[t].kind)
       IN \/ /\ ref # <<>>
             /\ observers[ref[1]].status = "stopping"
             /\ observers' = [observers EXCEPT ![ref[1]].status = "stopped"]
          \/ UNCHANGED observers
    /\ WatcherStep(t, "sw_clear")
    /\ UNCHANGED <<calls, frame, observer, landing_observer>>

\* "app_state.observer = None"
SwClear(t) ==
    /\ pc[t] = "sw_clear"
    /\ SetSlot(frame[t].kind, <<>>)
    /\ WatcherStep(t, "sw_create")
    /\ UNCHANGED <<calls, frame, observers>>

\* "app_state.observer = Observer()"
SwCreate(t) ==
    /\ pc[t] = "sw_create"
    /\ LET id == NewObserver(observers)
       IN /\ observers' = DictPut(observers, id,
                                  [kind |-> frame[t].kind, status |-> "new"])
          /\ SetSlot(frame[t].kind, <<id>>)
    /\ WatcherStep(t, "sw_schedule")
    /\ UNCHANGED <<calls, frame>>

\* "app_state.observer.schedule(handler, folder_path, recursive=False)":
\* AttributeError when it is None by now, the call returns
SwSchedule(t) ==
    /\ pc[t] = "sw_schedule"
    /\ IF slot(frame[t].kind) = <<>>
       THEN /\ WatcherStep(t, "idle")
            /\ frame' = [frame EXCEPT ![t] = NoFrame]
       ELSE /\ WatcherStep(t, "sw_start")
            /\ UNCHANGED frame
    /\ UNCHANGED <<calls, observer, landing_observer, observers>>

\* "threading.Thread(target=app_state.observer.start, daemon=True)" and
\* "thread.start()", the start taken with it: an Observer never started and
\* not stopped runs, one started before stays as it is; the call returns
SwStart(t) ==
    /\ pc[t] = "sw_start"
    /\ LET ref == slot(frame[t].kind)
       IN IF ref = <<>> THEN UNCHANGED observers
          ELSE observers' =
                   [observers EXCEPT ![ref[1]].status =
                       IF @ = "new" THEN "running" ELSE @]
    /\ WatcherStep(t, "idle")
    /\ frame' = [frame EXCEPT ![t] = NoFrame]
    /\ UNCHANGED <<calls, observer, landing_observer>>

\* the thread of an Observer that was told to stop exits
ObserverExits ==
    /\ \E id \in DOMAIN observers :
          /\ observers[id].status = "stopping"
          /\ observers' = [observers EXCEPT ![id].status = "stopped"]
    /\ UNCHANGED <<inputs, landing_links, flight_to_landing_indices, links_from,
                   uploads, outside, watcher_initialized, last, calls, pc, frame,
                   observer, landing_observer>>

NextWatchers ==
    \/ \E t \in Threads :
          \/ SwCall(t)
          \/ SwCheck(t)
          \/ SwStop(t)
          \/ SwJoin(t)
          \/ SwClear(t)
          \/ SwCreate(t)
          \/ SwSchedule(t)
          \/ SwStart(t)
    \/ ObserverExits

SpecWatchers == InitWatchers /\ [][NextWatchers]_vars

-----------------------------------------------------------------------------
(* summarise_landings on its own: any landing list, then the call.  A         *)
(* landing's "VS" is <<>> for None and <<v>> for the number v; a quotient of   *)
(* two numbers is kept as the fraction in lowest terms.                       *)

RECURSIVE Gcd(_, _)
Gcd(a, b) == IF b = 0 THEN a ELSE Gcd(b, a % b)

\* num / den, den > 0
Quotient(num, den) ==
    LET g == Gcd(Abs(num), den)
    IN [num |-> num \div g, den |-> den \div g]

\* the float 0.0
ZeroFloat == [num |-> 0, den |-> 1]

\* sum(values) of a list of numbers
RECURSIVE sum(_)
sum(values) == IF values = <<>> THEN 0 ELSE Head(values) + sum(Tail(values))

\* [l.get("VS") for l in landings if <present>(l)]
vs_of(landings) == [i \in 1..Len(landings) |-> landings[i].VS[1]]

\* summarise_landings taking a landing's VS for present when it is truthy
summarise_landings_truthy(landings) ==
    LET present == SelectSeq(landings, LAMBDA l : l.VS # <<>> /\ l.VS # <<0>>)
        vs_values == vs_of(present)
        of_ac(ac) == vs_of(SelectSeq(present, LAMBDA l : l.norm_ac = ac))
    IN [count |-> Len(landings),
        mean_vs |-> IF vs_values # <<>> THEN Quotient(sum(vs_values), Len(vs_values))
                    ELSE ZeroFloat,
        avg_vs_per_aircraft |->
            [ac \in {l.norm_ac : l \in Range(present)} |->
                Quotient(sum(of_ac(ac)), Len(of_ac(ac)))]]

\* summarise_landings: a VS is present when it is an int or a float
summarise_landings(landings) ==
    LET present == SelectSeq(landings, LAMBDA l : l.VS # <<>>)
        vs_values == vs_of(present)
        of_ac(ac) == vs_of(SelectSeq(present, LAMBDA l : l.norm_ac = ac))
    IN [count |-> Len(landings),
        mean_vs |-> IF vs_values # <<>> THEN Quotient(sum(vs_values), Len(vs_values))
                    ELSE ZeroFloat,
        avg_vs_per_aircraft |->
            [ac \in {l.norm_ac : l \in Range(present)} |->
                Quotient(sum(of_ac(ac)), Len(of_ac(ac)))]]

VsValues == {<<>>, <<-200>>, <<0>>, <<100>>}

SummaryRecs == {[norm_ac |-> ac, VS |-> vs] : ac \in {"C172", "B738"}, vs \in VsValues}

InitSummary ==
    /\ cached_flights = <<>>
    /\ watched_logbook = <<>>
    /\ cached_landings \in SeqsUpTo(SummaryRecs, MaxLandings)
    /\ manual_overrides = EmptyDict
    /\ cluster_minutes = DefaultClusterMinutes
    /\ landing_links = EmptyDict
    /\ flight_to_landing_indices = EmptyDict
    /\ calls = 0
    /\ NoThreads
    /\ CleanStart
    /\ watcher_initialized = TRUE

SummariseLandings ==
    /\ summary' = <<summarise_landings(cached_landings)>>
    /\ UNCHANGED <<inputs, landing_links, flight_to_landing_indices, calls, pc, frame,
                   links_from, environ, apart, sources, mapcache, uploads,
                   watcher_initialized, observer, landing_observer, observers, last>>

NextSummary == SummariseLandings

SpecSummary == InitSummary /\ [][NextSummary]_vars

-----------------------------------------------------------------------------
(* The application with its handlers and callbacks running in threads: each   *)
(* step is one read or write of the shared state, as the code makes them      *)
(* (no statement of a handler or of recompute_links takes app_state._lock,    *)
(* except get_cluster_minutes for the one read it makes).  A handler's write  *)
(* of its file under uploads/ is taken together with the store before it.    *)

ThreadFlights ==
    <<[date |-> 1, norm_ac |-> "C172", landings |-> 1],
      [date |-> 2, norm_ac |-> "C172", landings |-> 1]>>

ThreadLandingLists ==
    {<<[date |-> 1, norm_ac |-> "C172", time |-> 0],
       [date |-> 2, norm_ac |-> "C172", time |-> 0]>>,
     <<[date |-> 1, norm_ac |-> "C172", time |-> 0],
       [date |-> 1, norm_ac |-> "C172", time |-> 180],
       [date |-> 2, norm_ac |-> "C172", time |-> 0],
       [date |-> 2, norm_ac |-> "C172", time |-> 180]>>}

ThreadOverrides == {<<1, 0>>}

ThreadMinutes == {1, DefaultClusterMinutes}

InitThreads ==
    /\ cached_flights = <<ThreadFlights>>
    /\ watched_logbook = <<>>
    /\ cached_landings = <<>>
    /\ manual_overrides = EmptyDict
    /\ cluster_minutes = DefaultClusterMinutes
    /\ landing_links = EmptyDict
    /\ flight_to_landing_indices = EmptyDict
    /\ calls = 0
    /\ NoThreads
    /\ CleanStart
    /\ watcher_initialized = TRUE

\* the thread goes on with the handler's call of recompute_links
CallRecompute(t) ==
    /\ pc' = [pc EXCEPT ![t] = "rl_flights"]
    /\ UNCHANGED <<process, calls, links_from, landing_links, flight_to_landing_indices>>

\* upload_landing_rate: app_state.cached_landings = parse_landing_rates(temp_path)
StoreLandings(t) ==
    /\ pc[t] = "idle"
    /\ \E landings \in ThreadLandingLists : cached_landings' = landings
    /\ CallRecompute(t)
    /\ UNCHANGED <<cached_flights, watched_logbook, manual_overrides, cluster_minutes, frame, uploads>>

\* resolve_link: app_state.manual_overrides[li] = fi, on the dict itself
StoreOverride(t) ==
    /\ pc[t] = "idle"
    /\ \E o \in ThreadOverrides : manual_overrides' = DictPut(manual_overrides, o[1], o[2])
    /\ CallRecompute(t)
    /\ uploads' = [uploads EXCEPT !.manual_links_json = <<json_dump(manual_overrides')>>]
    /\ UNCHANGED <<cached_flights, watched_logbook, cached_landings, cluster_minutes, frame>>

\* clear_override with an index: app_state.manual_overrides.pop(li, None), on the dict itself
PopOverride(t) ==
    /\ pc[t] = "idle"
    /\ \E o \in ThreadOverrides : manual_overrides' = DictPop(manual_overrides, o[1])
    /\ CallRecompute(t)
    /\ uploads' = [uploads EXCEPT !.manual_links_json = <<json_dump(manual_overrides')>>]
    /\ UNCHANGED <<cached_flights, watched_logbook, cached_landings, cluster_minutes, frame>>

InRecomputeLoop(u) == pc[u] = "rl_group"

\* clear_override without an index: app_state.manual_overrides = {}, a new dict;
\* a recompute_links that holds the old one keeps it
ReplaceOverrides(t) ==
    /\ pc[t] = "idle"
    /\ manual_overrides' = EmptyDict
    /\ frame' = [u \in Threads |->
                    IF InRecomputeLoop(u) /\ frame[u].ov_live
                    THEN [frame[u] EXCEPT !.ov_live = FALSE, !.ov_old = manual_overrides]
                    ELSE frame[u]]
    /\ CallRecompute(t)
    /\ uploads' = [uploads EXCEPT !.manual_links_json = <<json_dump(manual_overrides')>>]
    /\ UNCHANGED <<cached_flights, watched_logbook, cached_landings, cluster_minutes>>

\* set_cluster_minutes: app_state.set_cluster_minutes(minutes), minutes in [1, 60]
StoreMinutes(t) ==
    /\ pc[t] = "idle"
    /\ \E minutes \in ThreadMinutes : cluster_minutes' = minutes
    /\ CallRecompute(t)
    /\ uploads' = [uploads EXCEPT !.config_json = <<cluster_minutes'>>]
    /\ UNCHANGED <<cached_flights, watched_logbook, cached_landings, manual_overrides, frame>>

\* recompute_links: flights = get_current_flights()
RlFlights(t) ==
    /\ pc[t] = "rl_flights"
    /\ frame' = [frame EXCEPT ![t].flights =
                    get_current_flights(watched_logbook, cached_flights)]
    /\ pc' = [pc EXCEPT ![t] = "rl_landings"]
    /\ UNCHANGED <<inputs, uploads, process, landing_links, flight_to_landing_indices, calls, links_from>>

\* recompute_links: landings = app_state.cached_landings or []
RlLandings(t) ==
    /\ pc[t] = "rl_landings"
    /\ frame' = [frame EXCEPT ![t].landings = cached_landings]
    /\ pc' = [pc EXCEPT ![t] = "rl_overrides"]
    /\ UNCHANGED <<inputs, uploads, process, landing_links, flight_to_landing_indices, calls, links_from>>

\* recompute_links: manual_overrides = app_state.manual_overrides (the dict, not
\* a copy), then the groups are built from the local lists
RlOverrides(t) ==
    /\ pc[t] = "rl_overrides"
    /\ frame' = [frame EXCEPT ![t].ov_live = TRUE,
                              ![t].keys = group_keys(frame[t].landings),
                              ![t].out = NoLinks]
    /\ pc' = [pc EXCEPT ![t] =
                 IF frame[t].landings = <<>> THEN "rl_publish_links" ELSE "rl_group"]
    /\ UNCHANGED <<inputs, uploads, process, landing_links, flight_to_landing_indices, calls, links_from>>

\* the group's iteration reads the override mapping (it has flights)
reads_overrides(key, flights) == Len(flights_by_group(flights, key)) > 0

\* the group's iteration reaches "cluster_minutes = app_state.get_cluster_minutes()"
reads_cluster_minutes(key, flights, landings, overrides) ==
    LET flights_list == flights_by_group(flights, key)
        landing_list == landings_by_group(landings, key)
        lf_work == Len(working_flights(flights_list, landing_list, overrides, flights))
        ll_work == Len(working_landings(landing_list, overrides, flights))
    IN /\ Len(flights_list) > 0
       /\ ~(lf_work = 0 /\ ll_work > 0)
       /\ ~(lf_work = 1 /\ ll_work = 1)
       /\ ~(lf_work = ll_work /\ lf_work > 0)

\* recompute_links: one iteration of the loop over the groups, with the override
\* dict and the cluster window as they are now
RlGroup(t) ==
    /\ pc[t] = "rl_group"
    /\ LET f == frame[t]
           key == Head(f.keys)
           overrides == IF f.ov_live THEN manual_overrides ELSE f.ov_old
       IN frame' = [frame EXCEPT
              ![t].out = ProcessGroup(f.out, key, f.flights, f.landings,
                                      overrides, cluster_minutes),
              ![t].keys = Tail(f.keys),
              ![t].used_overrides =
                  IF reads_overrides(key, f.flights) THEN @ \cup {overrides} ELSE @,
              ![t].used_minutes =
                  IF reads_cluster_minutes(key, f.flights, f.landings, overrides)
                  THEN @ \cup {cluster_minutes} ELSE @]
    /\ pc' = [pc EXCEPT ![t] =
                 IF Tail(frame[t].keys) = <<>> THEN "rl_publish_links" ELSE "rl_group"]
    /\ UNCHANGED <<inputs, uploads, process, landing_links, flight_to_landing_indices, calls, links_from>>

\* recompute_links: app_state.landing_links = landing_links
RlPublishLinks(t) ==
    /\ pc[t] = "rl_publish_links"
    /\ landing_links' = frame[t].out.landing_links
    /\ links_from' = [flights |-> frame[t].flights, landings |-> frame[t].landings]
    /\ pc' = [pc EXCEPT ![t] = "rl_publish_index"]
    /\ UNCHANGED <<inputs, uploads, process, flight_to_landing_indices, calls, frame>>

\* recompute_links: app_state.flight_to_landing_indices = flight_to_landing_indices,
\* and the handler returns
RlPublishIndex(t) ==
    /\ pc[t] = "rl_publish_index"
    /\ flight_to_landing_indices' = frame[t].out.flight_to_landing_indices
    /\ frame' = [frame EXCEPT ![t] = NoFrame]
    /\ pc' = [pc EXCEPT ![t] = "idle"]
    /\ UNCHANGED <<inputs, uploads, process, landing_links, calls, links_from>>

\* get_landing_data: landings = app_state.cached_landings or get_current_landings()
\* (no landing-rate file on disk: get_current_landings() is [])
GdLandings(t) ==
    /\ pc[t] = "idle"
    /\ frame' = [frame EXCEPT ![t].resp.landings = cached_landings]
    /\ pc' = [pc EXCEPT ![t] = "gd_links"]
    /\ UNCHANGED <<inputs, uploads, process, landing_links, flight_to_landing_indices, calls, links_from>>

\* get_landing_data: "links": app_state.landing_links
GdLinks(t) ==
    /\ pc[t] = "gd_links"
    /\ frame' = [frame EXCEPT ![t].resp.links = landing_links,
                              ![t].resp.links_from = links_from]
    /\ pc' = [pc EXCEPT ![t] = "gd_index"]
    /\ UNCHANGED <<inputs, uploads, process, landing_links, flight_to_landing_indices, calls, links_from>>

\* get_landing_data: "flight_to_landing_indices": app_state.flight_to_landing_indices
GdIndex(t) ==
    /\ pc[t] = "gd_index"
    /\ frame' = [frame EXCEPT ![t].resp.index = flight_to_landing_indices]
    /\ pc' = [pc EXCEPT ![t] = "gd_respond"]
    /\ UNCHANGED <<inputs, uploads, process, landing_links, flight_to_landing_indices, calls, links_from>>

\* get_landing_data: the response is sent
GdRespond(t) ==
    /\ pc[t] = "gd_respond"
    /\ frame' = [frame EXCEPT ![t] = NoFrame]
    /\ pc' = [pc EXCEPT ![t] = "idle"]
    /\ UNCHANGED <<inputs, uploads, process, landing_links, flight_to_landing_indices, calls, links_from>>

NextThreads ==
    \E t \in Threads :
        \/ StoreLandings(t)
        \/ StoreOverride(t)
        \/ PopOverride(t)
        \/ ReplaceOverrides(t)
        \/ StoreMinutes(t)
        \/ RlFlights(t)
        \/ RlLandings(t)
        \/ RlOverrides(t)
        \/ RlGroup(t)
        \/ RlPublishLinks(t)
        \/ RlPublishIndex(t)
        \/ GdLandings(t)
        \/ GdLinks(t)
        \/ GdIndex(t)
        \/ GdRespond(t)

SpecThreads == InitThreads /\ [][NextThreads]_vars

-----------------------------------------------------------------------------
(* The before_request hook ensure_watcher_initialized run by the threads of   *)
(* the first requests, one statement a step.  While a thread is inside        *)
(* init_watcher_if_configured every other request waits in the hook, so the   *)
(* body of init_watcher_if_configured is one step; it returns, or raises      *)
(* from the statements before its try block (uploads/watched_folder.txt that  *)
(* does not decode: _load_persisted_watched_folder catches IOError only).     *)

MaxRaises == 1

InitFiles ==
    {[config_json |-> cj, manual_links_json |-> ml] :
        cj \in {<<>>, <<30>>, <<61>>},
        ml \in {<<>>, <<json_dump(EmptyDict)>>, <<json_dump(DictPut(EmptyDict, 0, 0))>>}}

\* a new process, whatever an earlier run left under uploads/
InitRequests ==
    /\ environ \in EnvValues
    /\ summary = <<>>
    /\ \E files \in InitFiles : Is(AppState(environ, files))
    /\ calls = 0
    /\ NoThreads

EwiStep(t, to) ==
    /\ pc' = [pc EXCEPT ![t] = to]
    /\ UNCHANGED <<calls, frame, links_from, environ, summary, sources, mapcache>>

AppStateKept ==
    UNCHANGED <<inputs, landing_links, flight_to_landing_indices, uploads, observer,
                landing_observer, observers, last>>

\* ensure_watcher_initialized entered without the second look at the flag
EwiRecheckSkipped(t) ==
    /\ pc[t] = "ewi_recheck"
    /\ EwiStep(t, "ewi_init")
    /\ AppStateKept
    /\ UNCHANGED <<watcher_initialized, apart>>

\* ensure_watcher_initialized: if app_state.watcher_initialized: return
EwiCheck(t) ==
    /\ pc[t] = "idle"
    /\ EwiStep(t, IF watcher_initialized THEN "view" ELSE "ewi_acquire")
    /\ AppStateKept
    /\ UNCHANGED <<watcher_initialized, apart>>

\* with watcher_init_lock: the thread waits until the lock is free
EwiAcquire(t) ==
    /\ pc[t] = "ewi_acquire"
    /\ watcher_init_lock = <<>>
    /\ watcher_init_lock' = <<t>>
    /\ EwiStep(t, "ewi_recheck")
    /\ AppStateKept
    /\ UNCHANGED <<watcher_initialized, init_runs>>

\* under the lock: if app_state.watcher_initialized: return (the lock is
\* released on the way out)
EwiRecheck(t) ==
    /\ pc[t] = "ewi_recheck"
    /\ IF watcher_initialized
       THEN /\ watcher_init_lock' = <<>>
            /\ EwiStep(t, "view")
       ELSE /\ UNCHANGED watcher_init_lock
            /\ EwiStep(t, "ewi_init")
    /\ AppStateKept
    /\ UNCHANGED <<watcher_initialized, init_runs>>

\* init_watcher_if_configured() is called
EwiInit(t) ==
    /\ pc[t] = "ewi_init"
    /\ init_runs' = [init_runs EXCEPT !.started = @ + 1]
    /\ EwiStep(t, "ewi_running")
    /\ AppStateKept
    /\ UNCHANGED <<watcher_initialized, watcher_init_lock>>

\* init_watcher_if_configured returns
EwiReturn(t) ==
    /\ pc[t] = "ewi_running"
    /\ Becomes(init_watcher_if_configured(app_state))
    /\ init_runs' = [init_runs EXCEPT !.returned = @ + 1]
    /\ EwiStep(t, "ewi_set")
    /\ UNCHANGED watcher_init_lock

\* init_watcher_if_configured raises: the with block is left, the lock is
\* released, the request fails and the flag is not set
EwiRaise(t) ==
    /\ pc[t] = "ewi_running"
    /\ init_runs.raised < MaxRaises
    /\ init_runs' = [init_runs EXCEPT !.raised = @ + 1]
    /\ watcher_init_lock' = <<>>
    /\ EwiStep(t, "idle")
    /\ AppStateKept
    /\ UNCHANGED watcher_initialized

\* app_state.watcher_initialized = True
EwiSet(t) ==
    /\ pc[t] = "ewi_set"
    /\ watcher_initialized' = TRUE
    /\ EwiStep(t, "ewi_release")
    /\ AppStateKept
    /\ UNCHANGED apart

\* the with block is left
EwiRelease(t) ==
    /\ pc[t] = "ewi_release"
    /\ watcher_init_lock' = <<>>
    /\ EwiStep(t, "view")
    /\ AppStateKept
    /\ UNCHANGED <<watcher_initialized, init_runs>>

\* the view function of the request runs and answers
View(t) ==
    /\ pc[t] = "view"
    /\ EwiStep(t, "idle")
    /\ AppStateKept
    /\ UNCHANGED <<watcher_initialized, apart>>

NextRequests ==
    \E t \in Threads :
        \/ EwiCheck(t)
        \/ EwiAcquire(t)
        \/ EwiRecheck(t)
        \/ EwiInit(t)
        \/ EwiReturn(t)
        \/ EwiRaise(t)
        \/ EwiSet(t)
        \/ EwiRelease(t)
        \/ View(t)

SpecRequests == InitRequests /\ [][NextRequests]_vars

-----------------------------------------------------------------------------
(* The landing-rate source: a file or a folder is set, its files are written  *)
(* on disk, the watcher's callbacks and the consumers run, one at a time.     *)
(* No logbook folder is watched (app_state.watched_folder is None).  A file   *)
(* on disk is held as the list parse_landing_rates makes of it.               *)

MaxEmits == 3

RateLists ==
    {<<[date |-> 1, norm_ac |-> "C172", time |-> 0]>>,
     <<[date |-> 1, norm_ac |-> "C172", time |-> 0],
       [date |-> 1, norm_ac |-> "C172", time |-> 180]>>}

\* paths a request can name: the files there can be
RequestPaths == DiskPaths

\* get_current_landings: the file of landing_rate_path, else LandingRate.log
\* of landing_watched_folder, else logs/LandingRate.log, else []
get_current_landings(path, folder, files) ==
    LET in_folder == [dir |-> folder[1], base |-> LANDING_RATE_FILENAME]
        default_path == [dir |-> "logs", base |-> LANDING_RATE_FILENAME]
    IN IF path # <<>> /\ files[path[1]] # <<>> THEN files[path[1]][1]
       ELSE IF folder # <<>> /\ files[in_folder] # <<>> THEN files[in_folder][1]
       ELSE IF files[default_path] # <<>> THEN files[default_path][1]
       ELSE <<>>

\* start_landing_rate_watcher with nothing else running: the observer in
\* app_state.landing_observer is stopped and joined, a new one is created,
\* scheduled on the folder and started
start_landing_rate_watcher(s) ==
    LET left == IF s.landing_observer = <<>> THEN s.observers
                ELSE DictPop(s.observers, s.landing_observer[1])
        id == NewObserver(left)
    IN [s EXCEPT !.landing_observer = <<id>>,
                 !.observers = DictPut(left, id, [kind |-> "landing", status |-> "running"])]

\* broadcast_landing_update: the payload of the "landing_rate_update" event
broadcast_landing_update(s) ==
    [count |-> emitted.count + 1,
     payload |-> <<[landings |-> s.cached_landings,
                    links |-> s.landing_links,
                    flight_to_landing_indices |-> s.flight_to_landing_indices]>>]

\* the application state becomes s, the source and the files as given
RatesStep(s, path, folder, files, emit) ==
    /\ Becomes(s)
    /\ landing_rate_path' = path
    /\ landing_watched_folder' = folder
    /\ disk' = files
    /\ emitted' = emit
    /\ UNCHANGED <<calls, pc, frame, links_from, environ, summary, apart, mapcache>>

\* the store, start of the watcher, recompute and broadcast that
\* set_landing_rate_file, set_landing_rate_folder do after the source is set
Watching(s, landings, op, arg, path, folder) ==
    LET done == recompute_links(start_landing_rate_watcher(
                    [s EXCEPT !.cached_landings = landings]))
    IN RatesStep(Responded(done, op, arg, 200), path, folder, disk,
                 broadcast_landing_update(done))

\* the callback reading the source again, recompute_links, the broadcast
maybe_refresh(op, arg, files) ==
    LET done == recompute_links(
                    [app_state EXCEPT !.cached_landings =
                        get_current_landings(landing_rate_path, landing_watched_folder, files)])
    IN RatesStep(Responded(done, op, arg, 0), landing_rate_path, landing_watched_folder,
                 files, broadcast_landing_update(done))

\* LandingRateHandler.on_modified, and on_created which calls it: the refresh
\* is made when the file is called LandingRate.log, landing_rate_path is set
\* and the event's path is landing_rate_path
landing_on_modified(p, op, files) ==
    IF p.base = LANDING_RATE_FILENAME /\ landing_rate_path # <<>> /\ landing_rate_path[1] = p
    THEN maybe_refresh(op, <<p>>, files)
    ELSE RatesStep(Responded(app_state, op, <<p>>, 0), landing_rate_path,
                   landing_watched_folder, files, emitted)

\* what the consumer of GET /landing-rates/data and of /landing-rates gets
Response(landings, s) ==
    [landings |-> landings, links |-> s.landing_links,
     flight_to_landing_indices |-> s.flight_to_landing_indices]

\* landings = app_state.cached_landings or get_current_landings()
shown_landings ==
    IF cached_landings # <<>> THEN cached_landings
    ELSE get_current_landings(landing_rate_path, landing_watched_folder, disk)

\* the process has served its first request with nothing persisted and no
\* logs/LandingRate.log; the other landing-rate files are there or not
InitRates ==
    /\ environ = <<>>
    /\ summary = <<>>
    /\ Is([AppState(environ, NoUploads) EXCEPT !.watcher_initialized = TRUE])
    /\ calls = 0
    /\ NoFirstRequests
    /\ NoMapCalls
    /\ pc = [t \in Threads |-> "idle"]
    /\ frame = [t \in Threads |-> NoFrame]
    /\ links_from = [flights |-> <<>>, landings |-> <<>>]
    /\ landing_rate_path = <<>>
    /\ landing_watched_folder = <<>>
    /\ emitted = NoEmit
    /\ disk \in {files \in [DiskPaths -> {<<>>} \cup {<<l>> : l \in RateLists}] :
                    files[[dir |-> "logs", base |-> LANDING_RATE_FILENAME]] = <<>>}

\* POST /set_landing_rate_file
SetLandingRateFile ==
    \E p \in RequestPaths :
        IF disk[p] = <<>>
        THEN RatesStep(Responded(app_state, "set_landing_rate_file", <<p>>, 400),
                       landing_rate_path, landing_watched_folder, disk, emitted)
        ELSE /\ emitted.count < MaxEmits
             /\ Watching(app_state, disk[p][1], "set_landing_rate_file", <<p>>,
                         <<p>>, <<p.dir>>)

\* POST /set_landing_rate_folder
SetLandingRateFolder ==
    \E d \in Dirs :
        LET log_path == [dir |-> d, base |-> LANDING_RATE_FILENAME]
        IN IF disk[log_path] = <<>>
           THEN RatesStep(Responded(app_state, "set_landing_rate_folder", <<d>>, 400),
                          landing_rate_path, landing_watched_folder, disk, emitted)
           ELSE /\ emitted.count < MaxEmits
                /\ Watching(app_state, disk[log_path][1], "set_landing_rate_folder", <<d>>,
                            <<>>, <<d>>)

\* POST /upload_landing_rate with a file of landings, or of none
RatesUpload ==
    \E landings \in RateLists \cup {<<>>} :
        /\ emitted.count < MaxEmits
        /\ LET done == upload_landing_rate(app_state, landings)
           IN RatesStep(done, landing_rate_path, landing_watched_folder, disk,
                        broadcast_landing_update(done))

\* a file of the folder the landing observer is scheduled on is written, or
\* created, and the observer calls on_modified, or on_created
LandingFileEvent ==
    \E p \in DiskPaths, landings \in RateLists :
        /\ landing_observer # <<>>
        /\ landing_watched_folder = <<p.dir>>
        /\ disk[p] # <<landings>>
        /\ emitted.count < MaxEmits
        /\ landing_on_modified(p, IF disk[p] = <<>> THEN "on_created" ELSE "on_modified",
                               [disk EXCEPT ![p] = <<landings>>])

\* a file of a folder no observer is scheduled on is written or created
FileWritten ==
    \E p \in DiskPaths, landings \in RateLists :
        /\ landing_watched_folder # <<p.dir>>
        /\ disk[p] # <<landings>>
        /\ RatesStep(Responded(app_state, "none", <<>>, 0), landing_rate_path,
                     landing_watched_folder, [disk EXCEPT ![p] = <<landings>>], emitted)

\* GET /landing-rates/data
GetLandingData ==
    RatesStep(Responded(app_state, "get_landing_data",
                        <<Response(shown_landings, app_state)>>, 200),
              landing_rate_path, landing_watched_folder, disk, emitted)

\* GET /landing-rates: the list is taken, recompute_links runs, the page is
\* rendered with app_state.landing_links
LandingRatesPage ==
    LET done == recompute_links(app_state)
    IN RatesStep(Responded(done, "landing_rates_page",
                           <<Response(shown_landings, done)>>, 200),
                 landing_rate_path, landing_watched_folder, disk, emitted)

NextRates ==
    \/ BootDashboardUpload
    \/ SetLandingRateFile
    \/ SetLandingRateFolder
    \/ RatesUpload
    \/ LandingFileEvent
    \/ FileWritten
    \/ GetLandingData
    \/ LandingRatesPage

SpecRates == InitRates /\ [][NextRates]_vars

-----------------------------------------------------------------------------
(* build_map_data called from request threads: the two blocks it runs under   *)
(* _MAP_CACHE_LOCK, statement by statement.  A cache_key stands for the       *)
(* filters, the flights and the airport data it is made of; the payload is a  *)
(* function of the key and is left out.  The program's cache holds 32         *)
(* entries for 900 seconds: the model's holds MAP_CACHE_MAX_ENTRIES for       *)
(* MAP_CACHE_TTL_SECONDS ticks of the clock, small enough for the eviction    *)
(* and the expiry to be reached; the code compares with them and nothing more.*)

MAP_CACHE_MAX_ENTRIES == 2

MAP_CACHE_TTL_SECONDS == 2

MaxClock == 4

\* one key more than the cache holds
CacheKeys == 1..MAP_CACHE_MAX_ENTRIES + 1

cache_keys(cache) == {cache[i].key : i \in DOMAIN cache}

\* _MAP_DATA_CACHE.get(cache_key): <<>> is None
cache_get(cache, key) ==
    IF key \in cache_keys(cache)
    THEN <<cache[CHOOSE i \in DOMAIN cache : cache[i].key = key]>>
    ELSE <<>>

\* _MAP_DATA_CACHE.pop(cache_key, None)
cache_pop(cache, key) == SelectSeq(cache, LAMBDA e : e.key # key)

\* move_to_end left out
leave_in_place(cache, key) == cache

\* _MAP_DATA_CACHE.move_to_end(cache_key)
move_to_end(cache, key) ==
    IF cache_get(cache, key) = <<>> THEN cache
    ELSE Append(cache_pop(cache, key), cache_get(cache, key)[1])

\* _MAP_DATA_CACHE[cache_key] = {"ts": ..., "payload": ...}: an entry of the
\* key is replaced where it is, a new one is put at the end
cache_set(cache, key, ts) ==
    IF key \in cache_keys(cache)
    THEN [i \in DOMAIN cache |-> IF cache[i].key = key THEN [key |-> key, ts |-> ts]
                                 ELSE cache[i]]
    ELSE Append(cache, [key |-> key, ts |-> ts])

\* cached_at and (time.time() - cached_at) <= MAP_CACHE_TTL_SECONDS
fresh(entry, time) == entry.ts # 0 /\ time - entry.ts <= MAP_CACHE_TTL_SECONDS

\* history: the key was inserted or served last
Used(key) ==
    [map_log EXCEPT !.recent = Append(SelectSeq(@, LAMBDA k : k # key), key)]

Answered(log, key, how, ts) ==
    [log EXCEPT !.answer = <<[key |-> key, how |-> how, ts |-> ts, at |-> now]>>]

InitMapCalls == InitWatchers

MapStep(t, to) ==
    /\ pc' = [pc EXCEPT ![t] = to]
    /\ UNCHANGED <<inputs, landing_links, flight_to_landing_indices, calls, frame,
                   links_from, environ, summary, apart, sources, uploads,
                   watcher_initialized, observer, landing_observer, observers, last>>

\* build_map_data is called: the cache_key is made
BmdCall(t) ==
    \E key \in CacheKeys :
        /\ pc[t] = "idle"
        /\ map_call' = [map_call EXCEPT ![t] = <<key>>]
        /\ MapStep(t, "bmd_lookup_lock")
        /\ UNCHANGED <<map_cache, now, map_cache_lock, map_log>>

\* with _MAP_CACHE_LOCK: entered for the lookup
BmdLookupAcquire(t) ==
    /\ pc[t] = "bmd_lookup_lock"
    /\ map_cache_lock = <<>>
    /\ map_cache_lock' = <<t>>
    /\ MapStep(t, "bmd_lookup")
    /\ UNCHANGED <<map_cache, now, map_call, map_log>>

\* the lookup: a fresh entry is moved to the end and its payload returned, an
\* old one is popped; the lock is released
BmdLookup(t) ==
    LET key == map_call[t][1]
        cached == cache_get(map_cache, key)
    IN /\ pc[t] = "bmd_lookup"
       /\ map_cache_lock' = <<>>
       /\ IF cached = <<>>
          THEN /\ MapStep(t, "bmd_compute")
               /\ UNCHANGED <<map_cache, map_call, map_log>>
          ELSE IF fresh(cached[1], now)
          THEN /\ map_cache' = move_to_end(map_cache, key)
               /\ map_log' = Answered(Used(key), key, "cached", cached[1].ts)
               /\ map_call' = [map_call EXCEPT ![t] = <<>>]
               /\ MapStep(t, "idle")
          ELSE /\ map_cache' = cache_pop(map_cache, key)
               /\ MapStep(t, "bmd_compute")
               /\ UNCHANGED <<map_call, map_log>>
       /\ UNCHANGED now

\* the result is computed; with _MAP_CACHE_LOCK: entered for the store
BmdStoreAcquire(t) ==
    /\ pc[t] = "bmd_compute"
    /\ map_cache_lock = <<>>
    /\ map_cache_lock' = <<t>>
    /\ MapStep(t, "bmd_store")
    /\ UNCHANGED <<map_cache, now, map_call, map_log>>

\* _MAP_DATA_CACHE[cache_key] = {...}; _MAP_DATA_CACHE.move_to_end(cache_key)
BmdStore(t) ==
    LET key == map_call[t][1]
    IN /\ pc[t] = "bmd_store"
       /\ map_cache' = move_to_end(cache_set(map_cache, key, now), key)
       /\ map_log' = Used(key)
       /\ MapStep(t, "bmd_evict")
       /\ UNCHANGED <<now, map_cache_lock, map_call>>

\* while len(_MAP_DATA_CACHE) > MAP_CACHE_MAX_ENTRIES: popitem(last=False);
\* then the lock is released and the result returned
BmdEvict(t) ==
    /\ pc[t] = "bmd_evict"
    /\ IF Len(map_cache) > MAP_CACHE_MAX_ENTRIES
       THEN /\ map_cache' = Tail(map_cache)
            /\ MapStep(t, "bmd_evict")
            /\ UNCHANGED <<map_cache_lock, map_call, map_log>>
       ELSE /\ map_cache_lock' = <<>>
            /\ map_log' = Answered(map_log, map_call[t][1], "computed", now)
            /\ map_call' = [map_call EXCEPT ![t] = <<>>]
            /\ MapStep(t, "idle")
            /\ UNCHANGED map_cache
    /\ UNCHANGED now

\* a second passes
Tick ==
    /\ now < MaxClock
    /\ now' = now + 1
    /\ UNCHANGED <<inputs, landing_links, flight_to_landing_indices, calls, pc, frame,
                   links_from, environ, summary, apart, sources, uploads,
                   watcher_initialized, observer, landing_observer, observers, last,
                   map_cache, map_cache_lock, map_call, map_log>>

NextMapCalls ==
    \/ Tick
    \/ \E t \in Threads :
          \/ BmdCall(t)
          \/ BmdLookupAcquire(t)
          \/ BmdLookup(t)
          \/ BmdStoreAcquire(t)
          \/ BmdStore(t)
          \/ BmdEvict(t)

SpecMapCalls == InitMapCalls /\ [][NextMapCalls]_vars

-----------------------------------------------------------------------------
(* The claims *)

Flights == get_current_flights(watched_logbook, cached_flights)

Landings == cached_landings

LandingIndices == 0..Len(Landings) - 1

FlightIndices == 0..Len(Flights) - 1

Computed == calls >= 1

HasFlight(link) == "flightIndex" \in DOMAIN link

Confidence(li) == landing_links[li].linkConfidence

LinkedTo(li, fi, conf) ==
    /\ li \in DOMAIN landing_links
    /\ HasFlight(landing_links[li])
    /\ landing_links[li].flightIndex = fi
    /\ landing_links[li].linkConfidence = conf

ValidOverride(li) ==
    /\ li \in DOMAIN manual_overrides
    /\ manual_overrides[li] \in FlightIndices

GroupKeys == {GroupKey(At(Landings, li)) : li \in LandingIndices}

GroupLandings(key) == {li \in LandingIndices : GroupKey(At(Landings, li)) = key}

GroupFlights(key) ==
    {fi \in FlightIndices : GroupKey(At(Flights, fi)) = key /\ At(Flights, fi).landings >= 1}

\* the working pool of a group: what is left after the landings with a valid
\* override, and the flights those overrides name, are taken out
PoolLandings(key) == {li \in GroupLandings(key) : ~ValidOverride(li)}

PoolFlights(key) ==
    GroupFlights(key) \
        {manual_overrides[li] : li \in {x \in GroupLandings(key) : ValidOverride(x)}}

PoolLandingSeq(key) ==
    SelectSeq(landings_by_group(Landings, key), LAMBDA li : li \in PoolLandings(key))

PoolFlightSeq(key) ==
    SelectSeq(IndexSeq(Len(Flights)), LAMBDA fi : fi \in PoolFlights(key))

ClusterCount(key) == Len(make_clusters(PoolLandingSeq(key), Landings, cluster_minutes))

DeclaredSum(key) == total_declared(PoolFlightSeq(key), Flights)

\* C1: after recompute_links every landing with an override to a flight index F
\* of the flight list is linked to F with confidence "manual" and is in F's
\* landing-index list, whatever group the landing is in, a group without flights
\* included.
C1_ManualOverrideHonoured ==
    Computed =>
        \A li \in LandingIndices :
            ValidOverride(li) =>
                /\ LinkedTo(li, manual_overrides[li], "manual")
                /\ manual_overrides[li] \in DOMAIN flight_to_landing_indices
                /\ li \in Range(flight_to_landing_indices[manual_overrides[li]])

\* C2: a consumer (get_landing_data) never holds link maps together with a
\* landing list other than the one those maps were computed from.
C2_ConsumerReadsMatchingMaps ==
    \A t \in Threads :
        pc[t] \in {"gd_index", "gd_respond"} =>
            frame[t].resp.links_from.landings = frame[t].resp.landings

\* C3: once all concurrent triggers have completed, the published maps are the
\* result of recompute_links on the final flights, landings, overrides and
\* cluster window.
C3_FinalMapsAreOfFinalInputs ==
    (\A t \in Threads : pc[t] = "idle") =>
        LET out == compute_links(Flights, Landings, manual_overrides, cluster_minutes)
        IN /\ landing_links = out.landing_links
           /\ flight_to_landing_indices = out.flight_to_landing_indices

\* C4: one execution of recompute_links uses for every group the override
\* mapping and the cluster window it used for the first group.
C4_OneSnapshotPerExecution ==
    \A t \in Threads :
        /\ Cardinality(frame[t].used_overrides) <= 1
        /\ Cardinality(frame[t].used_minutes) <= 1

\* C5: after any sequence of completed operations every key of landing_links is
\* an index of the current landing list, and every flightIndex in landing_links
\* and every key of flight_to_landing_indices is an index of the current flight
\* list.
C5_IndicesValid ==
    /\ \A li \in DOMAIN landing_links :
          /\ li \in LandingIndices
          /\ HasFlight(landing_links[li]) => landing_links[li].flightIndex \in FlightIndices
    /\ \A fi \in DOMAIN flight_to_landing_indices : fi \in FlightIndices

\* reached: an override that names no flight of the current list is stored while
\* landings are linked to flights
C5_Witness ==
    /\ \E li \in DOMAIN manual_overrides : manual_overrides[li] >= Len(Flights)
    /\ \E li \in DOMAIN landing_links : HasFlight(landing_links[li])
    /\ DOMAIN flight_to_landing_indices # {}

\* C6: a landing index occurs in the landing-index list of at most one flight,
\* and at most once in it.
C6_AtMostOneFlightPerLanding ==
    \A f1 \in DOMAIN flight_to_landing_indices, f2 \in DOMAIN flight_to_landing_indices :
        \A i \in 1..Len(flight_to_landing_indices[f1]),
           j \in 1..Len(flight_to_landing_indices[f2]) :
            flight_to_landing_indices[f1][i] = flight_to_landing_indices[f2][j]
                => f1 = f2 /\ i = j

\* reached: a flight with several landings, one by an override and one by a
\* heuristic
C6_Witness ==
    \E fi \in DOMAIN flight_to_landing_indices :
        /\ Len(flight_to_landing_indices[fi]) >= 2
        /\ \E a \in Range(flight_to_landing_indices[fi]) : Confidence(a) = "manual"
        /\ \E b \in Range(flight_to_landing_indices[fi]) : Confidence(b) # "manual"

\* C7: recompute_links changes only landing_links and flight_to_landing_indices:
\* the flight list, the landing list (content and order), manual_overrides and
\* cluster_minutes are after the call what they were before it.
C7_OnlyTheMapsChange == [][UNCHANGED inputs]_vars

\* reached: recompute_links has linked landings of a list that is not in time order
C7_Witness ==
    /\ Computed
    /\ DOMAIN flight_to_landing_indices # {}
    /\ \E i \in LandingIndices, j \in LandingIndices :
          /\ i < j
          /\ GroupKey(At(Landings, i)) = GroupKey(At(Landings, j))
          /\ At(Landings, i).time > At(Landings, j).time

\* the rule the cascade's priority order selects for the working pool of a group
ExpectedRule(key) ==
    LET lf == Cardinality(PoolFlights(key))
        ll == Cardinality(PoolLandings(key))
    IN IF lf = 0 THEN "unmatched"
       ELSE IF lf = 1 /\ ll = 1 THEN "unique-date-aircraft"
       ELSE IF lf = ll THEN "sequence-assumed"
       ELSE IF ClusterCount(key) = lf THEN "cluster-sequence"
       ELSE IF DeclaredSum(key) = ClusterCount(key) THEN "cluster-assigned"
       ELSE IF DeclaredSum(key) = ll THEN "count-assigned"
       ELSE "ambiguous"

\* C8: in a group all landings that are not manually overridden get the result
\* of one and the same rule, the first in the order unmatched, unique-date-aircraft,
\* sequence-assumed, cluster-sequence, cluster-assigned, count-assigned, ambiguous
\* whose condition holds.
C8_OneRulePerGroup ==
    Computed =>
        \A key \in GroupKeys :
            \A li \in PoolLandings(key) :
                /\ li \in DOMAIN landing_links
                /\ Confidence(li) = ExpectedRule(key)

\* reached: a group taken by the cluster-sequence rule whose declared counts also
\* add up to its number of landings (the count-based rule's condition)
C8_Witness ==
    /\ Computed
    /\ \E key \in GroupKeys :
          /\ ExpectedRule(key) = "cluster-sequence"
          /\ DeclaredSum(key) = Cardinality(PoolLandings(key))
          /\ \A li \in PoolLandings(key) : Confidence(li) = "cluster-sequence"

\* Scenarios B and C: two flights of one (day, aircraft) declaring one landing
\* each, two landings of that (day, aircraft) 3 minutes apart, no overrides
ScenarioTwoAndTwo(minutes) ==
    /\ Len(Flights) = 2
    /\ Len(Landings) = 2
    /\ \A fi \in FlightIndices :
          /\ At(Flights, fi).landings = 1
          /\ GroupKey(At(Flights, fi)) = GroupKey(At(Landings, 0))
    /\ GroupKey(At(Landings, 1)) = GroupKey(At(Landings, 0))
    /\ \A li \in LandingIndices : parse_dt_safe(At(Landings, li).time) # NoneDt
    /\ Abs(At(Landings, 0).time - At(Landings, 1).time) = 180
    /\ manual_overrides = EmptyDict
    /\ cluster_minutes = minutes

Earlier == IF At(Landings, 0).time < At(Landings, 1).time THEN 0 ELSE 1

Later == 1 - Earlier

ScenarioLinks(conf) ==
    /\ LinkedTo(Earlier, 0, conf)
    /\ LinkedTo(Later, 1, conf)
    /\ flight_to_landing_indices = (0 :> <<Earlier>> @@ 1 :> <<Later>>)

\* C9 as stated: in Scenario B (cluster window 10) the earlier landing is linked
\* to the first flight and the later one to the second, both "count-assigned".
C9_ScenarioB_CountAssigned ==
    (Computed /\ ScenarioTwoAndTwo(10)) => ScenarioLinks("count-assigned")

\* C9 amended: in Scenario B (cluster window 10) the earlier landing is linked to
\* the first flight and the later one to the second, both "sequence-assumed".
C9_ScenarioB_SequenceAssumed ==
    (Computed /\ ScenarioTwoAndTwo(10)) => ScenarioLinks("sequence-assumed")

\* reached: Scenario B computed, with the later landing first in the list
C9_Witness == Computed /\ ScenarioTwoAndTwo(10) /\ Earlier = 1

\* C10 as stated: in Scenario C (cluster window 1) each landing is linked to its
\* flight with confidence "cluster-sequence".
C10_ScenarioC_ClusterSequence ==
    (Computed /\ ScenarioTwoAndTwo(1)) => ScenarioLinks("cluster-sequence")

\* C10 amended: in Scenario C (cluster window 1) each landing is linked to its
\* flight with confidence "sequence-assumed"; no landing is "cluster-sequence"
\* or "count-assigned".
C10_ScenarioC_SequenceAssumed ==
    (Computed /\ ScenarioTwoAndTwo(1)) =>
        /\ ScenarioLinks("sequence-assumed")
        /\ \A li \in LandingIndices :
              Confidence(li) \notin {"cluster-sequence", "count-assigned"}

\* reached: Scenario C computed
C10_Witness == Computed /\ ScenarioTwoAndTwo(1) /\ DOMAIN landing_links = {0, 1}

-----------------------------------------------------------------------------
(* The rules of the cascade, one by one *)

\* the landing has an entry without a flight, with the confidence conf
Unlinked(li, conf) ==
    /\ li \in DOMAIN landing_links
    /\ landing_links[li] = [flight |-> None, linkConfidence |-> conf]

\* the landing is in no flight's landing-index list
InNoList(li) ==
    \A fi \in DOMAIN flight_to_landing_indices :
        li \notin Range(flight_to_landing_indices[fi])

\* the landing is linked to the flight fi with the confidence conf, in both maps
LinkedBothWays(li, fi, conf) ==
    /\ LinkedTo(li, fi, conf)
    /\ landing_links[li].flight = At(Flights, fi)
    /\ fi \in DOMAIN flight_to_landing_indices
    /\ li \in Range(flight_to_landing_indices[fi])
    /\ \A fj \in DOMAIN flight_to_landing_indices :
          fj # fi => li \notin Range(flight_to_landing_indices[fj])

\* C11: in a group whose working-flight pool is empty after the overrides are
\* taken out, every remaining working landing has no flight and the confidence
\* "unmatched", and is in no flight's landing-index list.
C11_EmptyFlightPoolUnmatched ==
    Computed =>
        \A key \in GroupKeys :
            PoolFlights(key) = {} =>
                \A li \in PoolLandings(key) : Unlinked(li, "unmatched") /\ InNoList(li)

\* reached: a group has flights, overrides have taken all of them out of the
\* pool, and a landing that is left is "unmatched"
C11_Witness ==
    /\ Computed
    /\ \E key \in GroupKeys :
          /\ GroupFlights(key) # {}
          /\ PoolFlights(key) = {}
          /\ \E li \in PoolLandings(key) : Unlinked(li, "unmatched")
          /\ \E li \in GroupLandings(key) : Confidence(li) = "manual"

ScenarioA ==
    /\ Len(Flights) = 1
    /\ Len(Landings) = 1
    /\ At(Flights, 0).landings = 1
    /\ At(Flights, 0).norm_ac = "C172"
    /\ GroupKey(At(Flights, 0)) = GroupKey(At(Landings, 0))
    /\ ~ValidOverride(0)

\* C13: a group whose working pool holds exactly one flight and one landing
\* links that landing to that flight with the confidence "unique-date-aircraft";
\* in Scenario A the landing is linked to flight index 0.
C13_OneAndOneUnique ==
    Computed =>
        /\ \A key \in GroupKeys :
              \A fi \in PoolFlights(key), li \in PoolLandings(key) :
                  (PoolFlights(key) = {fi} /\ PoolLandings(key) = {li})
                      => LinkedBothWays(li, fi, "unique-date-aircraft")
        /\ ScenarioA => LinkedBothWays(0, 0, "unique-date-aircraft")

\* reached: a group of two flights and two landings of which an override takes
\* one flight and one landing, and the landing that is left is linked to the
\* flight that is left (index 1)
C13_Witness ==
    /\ Computed
    /\ \E key \in GroupKeys :
          /\ Cardinality(GroupFlights(key)) = 2
          /\ Cardinality(GroupLandings(key)) = 2
          /\ PoolFlights(key) = {1}
          /\ \E li \in PoolLandings(key) : LinkedBothWays(li, 1, "unique-date-aircraft")

\* the position of a working landing in ascending time order (landings of equal
\* time in list order), and of a working flight in the order of the flight list
TimeRank(key, li) ==
    Cardinality({lj \in PoolLandings(key) :
                    \/ At(Landings, lj).time < At(Landings, li).time
                    \/ At(Landings, lj).time = At(Landings, li).time /\ lj < li})

FlightRank(key, fi) == Cardinality({fj \in PoolFlights(key) : fj < fi})

\* C14: a group whose working pool holds as many flights as landings (two or
\* more) links the i-th working landing in ascending time order to the i-th
\* working flight in list order, every link "sequence-assumed", whatever the
\* time gaps and the declared landing counts.
C14_EqualCountsSequence ==
    Computed =>
        \A key \in GroupKeys :
            (/\ Cardinality(PoolFlights(key)) = Cardinality(PoolLandings(key))
             /\ Cardinality(PoolFlights(key)) >= 2)
                => \A li \in PoolLandings(key), fi \in PoolFlights(key) :
                       TimeRank(key, li) = FlightRank(key, fi)
                           => LinkedBothWays(li, fi, "sequence-assumed")

\* reached: two flights whose declared counts do not add up to 2 and two landings
\* farther apart than the cluster window, the later one first in the list, are
\* paired in time order
C14_Witness ==
    /\ Computed
    /\ \E key \in GroupKeys :
          /\ PoolFlights(key) = {0, 1}
          /\ DeclaredSum(key) # 2
          /\ \E li \in PoolLandings(key), lj \in PoolLandings(key) :
                /\ PoolLandings(key) = {li, lj}
                /\ li < lj
                /\ At(Landings, li).time - At(Landings, lj).time > 60 * cluster_minutes
                /\ LinkedBothWays(lj, 0, "sequence-assumed")
                /\ LinkedBothWays(li, 1, "sequence-assumed")

\* the clusters the clustering step forms from the working landings of a group
Clusters(key) == make_clusters(PoolLandingSeq(key), Landings, cluster_minutes)

SameCluster(key, a, b) ==
    \E c \in 1..Len(Clusters(key)) :
        a \in Range(Clusters(key)[c]) /\ b \in Range(Clusters(key)[c])

\* the group's working pool reaches the clustering step: it has flights and
\* landings and is taken neither by the one-and-one nor by the equal-counts rule
ReachesClustering(key) ==
    /\ Cardinality(PoolFlights(key)) >= 1
    /\ Cardinality(PoolLandings(key)) >= 1
    /\ Cardinality(PoolFlights(key)) # Cardinality(PoolLandings(key))

Parseable(li) == At(Landings, li).time \notin UnparsableTimes

\* both timestamps parse and are at most the cluster window apart
WithinWindow(a, b) ==
    /\ Parseable(a)
    /\ Parseable(b)
    /\ At(Landings, b).time - At(Landings, a).time <= 60 * cluster_minutes
    /\ At(Landings, a).time - At(Landings, b).time <= 60 * cluster_minutes

\* C15: in the clustering step two working landings that follow one another in
\* time order are in the same cluster exactly when both timestamps parse and
\* the gap between them is at most the cluster window (the gap to the landing
\* just before, not to the first of the cluster); under "cluster-sequence" they
\* then have the same flight, and different flights otherwise.
C15_ClusterBoundary ==
    Computed =>
        \A key \in GroupKeys :
            ReachesClustering(key) =>
                \A a \in PoolLandings(key), b \in PoolLandings(key) :
                    TimeRank(key, b) = TimeRank(key, a) + 1 =>
                        /\ SameCluster(key, a, b) <=> WithinWindow(a, b)
                        /\ Confidence(a) = "cluster-sequence" =>
                              /\ Confidence(b) = "cluster-sequence"
                              /\ (landing_links[a].flightIndex = landing_links[b].flightIndex)
                                     <=> WithinWindow(a, b)

\* reached: with a window of 3 minutes, landings at 0 s, 180 s and 361 s of two
\* flights: the gap of 180 s joins, the gap of 181 s starts a new cluster
C15_Witness ==
    /\ Computed
    /\ cluster_minutes = 3
    /\ \E key \in GroupKeys :
          /\ ReachesClustering(key)
          /\ \E a \in PoolLandings(key), b \in PoolLandings(key), c \in PoolLandings(key) :
                /\ At(Landings, a).time = 0
                /\ At(Landings, b).time = 180
                /\ At(Landings, c).time = 361
                /\ LinkedBothWays(a, 0, "cluster-sequence")
                /\ LinkedBothWays(b, 0, "cluster-sequence")
                /\ LinkedBothWays(c, 1, "cluster-sequence")

\* reached: with a window of 3 minutes, landings at 0 s, 180 s and 181 s are one
\* cluster although the last is more than the window after the first
C15_ChainReached ==
    /\ Computed
    /\ cluster_minutes = 3
    /\ \E key \in GroupKeys :
          /\ ReachesClustering(key)
          /\ Len(Clusters(key)) = 1
          /\ {At(Landings, li).time : li \in PoolLandings(key)} = {0, 180, 181}
          /\ \A li \in PoolLandings(key) : LinkedBothWays(li, 0, "cluster-sequence")

\* C16: a landing whose timestamp does not parse has a link result, the one of
\* the rule that takes its group; where its group reaches the clustering step it
\* is alone in its cluster, so that under "cluster-sequence" no other working
\* landing of the group has its flight.
C16_UnparsableTimeKept ==
    Computed =>
        /\ \A li \in LandingIndices : li \in DOMAIN landing_links
        /\ \A key \in GroupKeys :
              \A li \in PoolLandings(key) :
                  ~Parseable(li) =>
                      /\ Confidence(li) = ExpectedRule(key)
                      /\ ReachesClustering(key) =>
                            /\ \E c \in 1..Len(Clusters(key)) : Clusters(key)[c] = <<li>>
                            /\ \A lj \in PoolLandings(key) \ {li} :
                                  /\ ~SameCluster(key, li, lj)
                                  /\ Confidence(li) = "cluster-sequence" =>
                                        landing_links[lj].flightIndex
                                            # landing_links[li].flightIndex

\* reached: with a window of 10 minutes a landing without a parsable timestamp
\* sorts between the landings at 0 s and 180 s and splits them: three clusters,
\* taken one and two by two flights ("cluster-assigned")
C16_Witness ==
    /\ Computed
    /\ cluster_minutes = DefaultClusterMinutes
    /\ \E key \in GroupKeys :
          /\ ReachesClustering(key)
          /\ Len(Clusters(key)) = 3
          /\ \E a \in PoolLandings(key), u \in PoolLandings(key), b \in PoolLandings(key) :
                /\ At(Landings, a).time = 0
                /\ ~Parseable(u)
                /\ At(Landings, b).time = 180
                /\ \A li \in {a, u, b} :
                      /\ HasFlight(landing_links[li])
                      /\ Confidence(li) = "cluster-assigned"

\* the working landing is the first of a cluster: the first in time order, or
\* not within the window of the landing just before it
StartsCluster(key, b) ==
    \/ TimeRank(key, b) = 0
    \/ \E a \in PoolLandings(key) :
          TimeRank(key, a) + 1 = TimeRank(key, b) /\ ~WithinWindow(a, b)

NumClusters(key) == Cardinality({b \in PoolLandings(key) : StartsCluster(key, b)})

\* the number, from 1 in time order, of the cluster of a working landing
ClusterIndex(key, li) ==
    Cardinality({b \in PoolLandings(key) :
                    TimeRank(key, b) <= TimeRank(key, li) /\ StartsCluster(key, b)})

\* C17: when the rules unmatched, unique-date-aircraft and sequence-assumed do
\* not apply and there are as many clusters as working flights, every landing of
\* the i-th cluster in time order is linked to the i-th working flight in list
\* order with confidence "cluster-sequence", whatever the flights declare.
C17_ClusterSequence ==
    Computed =>
        \A key \in GroupKeys :
            (ReachesClustering(key) /\ NumClusters(key) = Cardinality(PoolFlights(key)))
                => \A li \in PoolLandings(key), fi \in PoolFlights(key) :
                       ClusterIndex(key, li) = FlightRank(key, fi) + 1
                           => LinkedBothWays(li, fi, "cluster-sequence")

\* reached: two flights declaring one landing each, three landings in two
\* clusters: the first flight gets the two landings of the first cluster
C17_Witness ==
    /\ Computed
    /\ \E key \in GroupKeys :
          /\ ReachesClustering(key)
          /\ PoolFlights(key) = {0, 1}
          /\ At(Flights, 0).landings = 1
          /\ At(Flights, 1).landings = 1
          /\ NumClusters(key) = 2
          /\ \E a \in PoolLandings(key), b \in PoolLandings(key), c \in PoolLandings(key) :
                /\ a # b
                /\ LinkedBothWays(a, 0, "cluster-sequence")
                /\ LinkedBothWays(b, 0, "cluster-sequence")
                /\ LinkedBothWays(c, 1, "cluster-sequence")

\* the landings declared by the working flights before fi in list order
DeclaredBefore(key, fi) ==
    total_declared(SelectSeq(PoolFlightSeq(key), LAMBDA fj : fj < fi), Flights)

\* walking the working flights in list order, each taking as many units as it
\* declares landings, the flight fi takes the n-th unit
TakesUnit(key, fi, n) ==
    /\ DeclaredBefore(key, fi) < n
    /\ n <= DeclaredBefore(key, fi) + At(Flights, fi).landings

\* C18: when the rules before it do not apply and the working flights declare
\* as many landings as there are clusters, the flights, in list order, take as
\* many whole consecutive clusters each as they declare: every landing of a
\* taken cluster is linked to its flight with confidence "cluster-assigned"; a
\* landing of a cluster no flight took is "ambiguous" without a flight.
C18_ClusterAssigned ==
    Computed =>
        \A key \in GroupKeys :
            (/\ ReachesClustering(key)
             /\ NumClusters(key) # Cardinality(PoolFlights(key))
             /\ DeclaredSum(key) = NumClusters(key))
                => \A li \in PoolLandings(key) :
                       /\ \A fi \in PoolFlights(key) :
                             TakesUnit(key, fi, ClusterIndex(key, li))
                                 => LinkedBothWays(li, fi, "cluster-assigned")
                       /\ (\A fi \in PoolFlights(key) :
                               ~TakesUnit(key, fi, ClusterIndex(key, li)))
                             => Unlinked(li, "ambiguous") /\ InNoList(li)

\* reached: one flight declaring two landings takes both clusters of three
\* landings, the two landings of one cluster together
C18_Witness ==
    /\ Computed
    /\ \E key \in GroupKeys :
          /\ ReachesClustering(key)
          /\ Cardinality(PoolFlights(key)) = 1
          /\ Cardinality(PoolLandings(key)) = 3
          /\ NumClusters(key) = 2
          /\ DeclaredSum(key) = 2
          /\ \A li \in PoolLandings(key), fi \in PoolFlights(key) :
                LinkedBothWays(li, fi, "cluster-assigned")

\* reached: of two flights declaring one and two landings, the first takes the
\* first of three clusters and the second the other two
C18_TwoFlightsReached ==
    /\ Computed
    /\ \E key \in GroupKeys :
          /\ PoolFlights(key) = {0, 1}
          /\ At(Flights, 0).landings = 1
          /\ NumClusters(key) = 3
          /\ \A li \in PoolLandings(key) :
                LinkedBothWays(li, IF ClusterIndex(key, li) = 1 THEN 0 ELSE 1,
                               "cluster-assigned")

\* C19: when no rule before it applies and the working flights declare as many
\* landings as there are working landings, the flights, in list order, take as
\* many consecutive landings in time order each as they declare: every taken
\* landing is linked to its flight with confidence "count-assigned".
C19_CountAssigned ==
    Computed =>
        \A key \in GroupKeys :
            (/\ ReachesClustering(key)
             /\ NumClusters(key) # Cardinality(PoolFlights(key))
             /\ DeclaredSum(key) # NumClusters(key)
             /\ DeclaredSum(key) = Cardinality(PoolLandings(key)))
                => \A li \in PoolLandings(key), fi \in PoolFlights(key) :
                       TakesUnit(key, fi, TimeRank(key, li) + 1)
                           => LinkedBothWays(li, fi, "count-assigned")

\* reached: three landings in one cluster, two flights declaring one and two
\* landings: the earliest landing goes to the first flight, the two later ones
\* to the second
C19_Witness ==
    /\ Computed
    /\ \E key \in GroupKeys :
          /\ PoolFlights(key) = {0, 1}
          /\ At(Flights, 0).landings = 1
          /\ At(Flights, 1).landings = 2
          /\ NumClusters(key) = 1
          /\ Cardinality(PoolLandings(key)) = 3
          /\ \A li \in PoolLandings(key) :
                LinkedBothWays(li, IF TimeRank(key, li) = 0 THEN 0 ELSE 1,
                               "count-assigned")

\* none of the rules that link landings to flights applies to the working pool
NoRuleApplies(key) ==
    /\ ReachesClustering(key)
    /\ NumClusters(key) # Cardinality(PoolFlights(key))
    /\ DeclaredSum(key) # NumClusters(key)
    /\ DeclaredSum(key) # Cardinality(PoolLandings(key))

\* C20: when the working pool of a group has a flight and a landing and none of
\* the rules unique-date-aircraft, sequence-assumed, cluster-sequence,
\* cluster-assigned, count-assigned applies, every working landing of the group
\* is "ambiguous" without a flight and is in no flight's landing-index list.
C20_FallbackAmbiguous ==
    Computed =>
        \A key \in GroupKeys :
            NoRuleApplies(key) =>
                \A li \in PoolLandings(key) : Unlinked(li, "ambiguous") /\ InNoList(li)

\* reached: two flights declaring two landings each and three landings in one
\* cluster: all three landings are "ambiguous"
C20_Witness ==
    /\ Computed
    /\ \E key \in GroupKeys :
          /\ NoRuleApplies(key)
          /\ Cardinality(PoolFlights(key)) = 2
          /\ DeclaredSum(key) = 4
          /\ Cardinality(PoolLandings(key)) = 3
          /\ NumClusters(key) = 1
          /\ \A li \in PoolLandings(key) : Unlinked(li, "ambiguous")
          /\ flight_to_landing_indices = EmptyDict

-----------------------------------------------------------------------------
-----------------------------------------------------------------------------
\* the confidence and the flight record landing li had are those landing li2
\* has after the step
SameResult(li, li2) ==
    /\ li \in DOMAIN landing_links
    /\ li2 \in DOMAIN landing_links'
    /\ landing_links'[li2].linkConfidence = landing_links[li].linkConfidence
    /\ HasFlight(landing_links'[li2]) = HasFlight(landing_links[li])
    /\ HasFlight(landing_links[li]) =>
          At(Flights', landing_links'[li2].flightIndex)
              = At(Flights, landing_links[li].flightIndex)

\* at most one record of the group key lies at the positions i..j of the list:
\* exchanging the records at i and j moves no two records of the group past
\* each other
OwnOrderKept(list, i, j, key) ==
    Cardinality({p \in i..j : GroupKey(At(list, p)) = key}) <= 1

\* the step exchanges the landings at i and j, the overrides follow them
LandingsExchanged(i, j) ==
    /\ calls = MaxCalls /\ calls' = calls
    /\ i < j /\ j < Len(Landings)
    /\ cached_landings' = Swap(cached_landings, i, j)
    /\ manual_overrides' =
          [li \in {SwapIndex(i, j, k) : k \in DOMAIN manual_overrides} |->
              manual_overrides[SwapIndex(i, j, li)]]
    /\ UNCHANGED <<cached_flights, watched_logbook, cluster_minutes>>

\* the step exchanges the flights at i and j, the overrides follow them
FlightsExchanged(i, j) ==
    /\ calls = MaxCalls /\ calls' = calls
    /\ i < j /\ j < Len(Flights)
    /\ Flights' = Swap(Flights, i, j)
    /\ manual_overrides' =
          [li \in DOMAIN manual_overrides |-> SwapIndex(i, j, manual_overrides[li])]
    /\ UNCHANGED <<cached_landings, cluster_minutes>>

\* C22: exchanging two records of the landing list, or of the flight list,
\* (the overrides following the records) changes neither the confidence nor the
\* linked flight record of any landing whose own group's records keep their
\* relative order: a landing's result depends on its own group only.
C22_GroupsIndependent ==
    [][/\ \A i, j \in 0..MaxLandings - 1 :
             LandingsExchanged(i, j) =>
                 \A li \in LandingIndices :
                     OwnOrderKept(Landings, i, j, GroupKey(At(Landings, li)))
                         => SameResult(li, SwapIndex(i, j, li))
       /\ \A i, j \in 0..MaxFlights - 1 :
             FlightsExchanged(i, j) =>
                 \A li \in LandingIndices :
                     OwnOrderKept(Flights, i, j, GroupKey(At(Landings, li)))
                         => SameResult(li, li)]_vars

\* the links are computed for two groups, one with two different landings
\* that can be exchanged and the other with a landing linked to its flight by
\* a heuristic, and two flights of different groups that can be exchanged
C22_Witness ==
    /\ calls = MaxCalls
    /\ Len(Flights) = 2
    /\ GroupKey(At(Flights, 0)) # GroupKey(At(Flights, 1))
    /\ \E i, j, li \in LandingIndices :
          /\ i < j
          /\ At(Landings, i) # At(Landings, j)
          /\ GroupKey(At(Landings, i)) = GroupKey(At(Landings, j))
          /\ GroupKey(At(Landings, li)) # GroupKey(At(Landings, i))
          /\ li \in DOMAIN landing_links
          /\ HasFlight(landing_links[li])
          /\ Confidence(li) # "manual"
          /\ \E k \in {i, j} : HasFlight(landing_links[k])

-----------------------------------------------------------------------------
\* the published maps are those of the current inputs with the window minutes
MapsFor(minutes) ==
    LET out == compute_links(Flights, Landings, manual_overrides, minutes)
    IN /\ landing_links = out.landing_links
       /\ flight_to_landing_indices = out.flight_to_landing_indices

\* C23: a request to set the cluster window to a value outside [1, 60] is
\* answered with an error and leaves cluster_minutes, uploads/config.json and
\* both link maps as they were; a value inside [1, 60] is stored, persisted, and
\* when the request returns the maps are those computed with the new value.
C23_SetClusterMinutes ==
    [][\A minutes \in -1..61 :
          (last'.op = "set_cluster_minutes" /\ last'.arg = <<minutes>>) =>
              IF minutes < 1 \/ minutes > 60
              THEN /\ last'.status = 400
                   /\ UNCHANGED <<cluster_minutes, uploads, landing_links,
                                  flight_to_landing_indices>>
              ELSE LET out == compute_links(Flights, Landings, manual_overrides, minutes)
                   IN /\ last'.status = 200
                      /\ cluster_minutes' = minutes
                      /\ uploads'.config_json = <<minutes>>
                      /\ UNCHANGED <<cached_flights, watched_logbook, cached_landings,
                                     manual_overrides>>
                      /\ landing_links' = out.landing_links
                      /\ flight_to_landing_indices' = out.flight_to_landing_indices]_vars

\* a request with a value outside the range has been refused after a request
\* that changed the window, and with it the links, was accepted
C23_Witness ==
    /\ last.op = "set_cluster_minutes"
    /\ last.status = 400
    /\ last.arg[1] > 60
    /\ cluster_minutes # DefaultClusterMinutes
    /\ uploads.config_json = <<cluster_minutes>>
    /\ MapsFor(cluster_minutes)
    /\ ~MapsFor(DefaultClusterMinutes)

-----------------------------------------------------------------------------
\* C24: whenever the first request's initialisation has run, and after any
\* sequence of set requests, the cluster window recompute_links reads is an
\* integer in [1, 60].
C24_ClusterWindowInRange ==
    watcher_initialized => cluster_minutes \in 1..60

-----------------------------------------------------------------------------
\* the override of landing li names no flight of the current list
OutOfRange(li) ==
    /\ li \in DOMAIN manual_overrides
    /\ (manual_overrides[li] < 0 \/ manual_overrides[li] >= Len(Flights))

\* the maps recompute_links builds when the override entry of li is not there
MapsWithout(li) ==
    compute_links(Flights, Landings,
                  [k \in DOMAIN manual_overrides \ {li} |-> manual_overrides[k]],
                  cluster_minutes)

\* C25: an override whose flight index is negative or not below the number of
\* current flights is not applied: the published maps are exactly those
\* recompute_links builds from the same inputs without that entry.
C25_OutOfRangeOverrideIgnored ==
    Computed =>
        \A li \in DOMAIN manual_overrides :
            OutOfRange(li) =>
                /\ landing_links = MapsWithout(li).landing_links
                /\ flight_to_landing_indices = MapsWithout(li).flight_to_landing_indices

\* a landing whose override names the index just past the flight list is
\* linked to a flight by a heuristic
C25_Witness ==
    /\ Computed
    /\ \E li \in LandingIndices :
          /\ OutOfRange(li)
          /\ manual_overrides[li] = Len(Flights)
          /\ li \in DOMAIN landing_links
          /\ HasFlight(landing_links[li])
          /\ Confidence(li) # "manual"

-----------------------------------------------------------------------------
\* C26: a landing linked by its valid manual override has only that link, and
\* the flight the override names gets no landing by any other rule, also when
\* the landing is of another (day, aircraft) group than the flight.
C26_OverriddenFlightLeftAlone ==
    Computed =>
        \A li \in LandingIndices :
            (ValidOverride(li) /\ LinkedTo(li, manual_overrides[li], "manual")) =>
                \A lj \in DOMAIN landing_links :
                    (HasFlight(landing_links[lj])
                        /\ landing_links[lj].flightIndex = manual_overrides[li])
                    => Confidence(lj) = "manual"

-----------------------------------------------------------------------------
\* the step leaves the maps recompute_links builds from the current lists and
\* cluster window with the override mapping overrides
PublishedFor(overrides) ==
    LET out == compute_links(Flights, Landings, overrides, cluster_minutes)
    IN /\ manual_overrides' = overrides
       /\ landing_links' = out.landing_links
       /\ flight_to_landing_indices' = out.flight_to_landing_indices
       /\ UNCHANGED <<cached_flights, watched_logbook, cached_landings, cluster_minutes>>

NoManualLeft(lis) ==
    \A li \in lis \cap DOMAIN landing_links' :
        landing_links'[li].linkConfidence # "manual"

\* C27: a request to set an override is accepted for any pair of integers, a
\* request to clear one override and a request to clear all are accepted too;
\* each updates manual_overrides and has run recompute_links on the new mapping
\* when it returns: after clearing one landing's override that landing is not
\* "manual", after clearing all no landing is.
C27_OverrideRequests ==
    [][/\ \A li \in 0..MaxLandings - 1, fi \in -1..MaxFlights :
             (last'.op = "resolve_link" /\ last'.arg = <<li, fi>>) =>
                 /\ last'.status = 200
                 /\ PublishedFor([k \in DOMAIN manual_overrides \cup {li} |->
                                     IF k = li THEN fi ELSE manual_overrides[k]])
       /\ \A li \in 0..MaxLandings - 1 :
             (last'.op = "clear_override" /\ last'.arg = <<li>>) =>
                 /\ last'.status = 200
                 /\ PublishedFor([k \in DOMAIN manual_overrides \ {li} |->
                                     manual_overrides[k]])
                 /\ NoManualLeft({li})
       /\ last'.op = "clear_all_overrides" =>
             /\ last'.status = 200
             /\ PublishedFor(EmptyDict)
             /\ NoManualLeft(0..MaxLandings - 1)]_vars

\* the request to clear one landing's override has returned and that landing
\* is linked to a flight by a heuristic
C27_Witness ==
    /\ last.op = "clear_override"
    /\ last.arg[1] \notin DOMAIN manual_overrides
    /\ last.arg[1] \in DOMAIN landing_links
    /\ HasFlight(landing_links[last.arg[1]])
    /\ Confidence(last.arg[1]) # "manual"

-----------------------------------------------------------------------------
\* the watchers of a kind that run and have not been told to stop
RunningWatchers(kind) ==
    {id \in DOMAIN observers :
        observers[id].kind = kind /\ observers[id].status = "running"}

\* C28: when every call of start_watcher and start_landing_rate_watcher has
\* returned, at most one watcher of each kind is running.
C28_OneWatcherPerKind ==
    (\A t \in Threads : pc[t] = "idle") =>
        \A kind \in {"logbook", "landing"} : Cardinality(RunningWatchers(kind)) <= 1

-----------------------------------------------------------------------------
\* the flights of the day and aircraft of key that declare no landing
ZeroDeclared(key) ==
    {fi \in FlightIndices : GroupKey(At(Flights, fi)) = key /\ At(Flights, fi).landings = 0}

\* C29: a flight that declares zero landings is in no group: a landing is
\* linked to it, and it is in flight_to_landing_indices, only by a manual
\* override; every other link of a landing goes to a flight of the landing's
\* day and aircraft that declares at least one; and it is not counted: next to
\* it, one working flight and one working landing still are the unique pair.
C29_ZeroDeclaredInNoGroup ==
    Computed =>
        /\ \A li \in DOMAIN landing_links :
              (HasFlight(landing_links[li]) /\ Confidence(li) # "manual") =>
                  landing_links[li].flightIndex \in GroupFlights(GroupKey(At(Landings, li)))
        /\ \A fi \in DOMAIN flight_to_landing_indices :
              At(Flights, fi).landings = 0 =>
                  \A li \in Range(flight_to_landing_indices[fi]) :
                      LinkedTo(li, fi, "manual")
        /\ \A key \in GroupKeys :
              (ZeroDeclared(key) # {}
                  /\ Cardinality(PoolFlights(key)) = 1
                  /\ Cardinality(PoolLandings(key)) = 1) =>
                  \A li \in PoolLandings(key), fi \in PoolFlights(key) :
                      LinkedBothWays(li, fi, "unique-date-aircraft")

\* a flight declaring zero landings has a landing by a manual override, and
\* the one other flight and the one other landing of its group are linked as
\* the unique pair
C29_Witness ==
    /\ Computed
    /\ \E key \in GroupKeys :
          /\ \E fi \in ZeroDeclared(key) : fi \in DOMAIN flight_to_landing_indices
          /\ Cardinality(PoolFlights(key)) = 1
          /\ Cardinality(PoolLandings(key)) = 1
          /\ \A li \in PoolLandings(key) : Confidence(li) = "unique-date-aircraft"

-----------------------------------------------------------------------------
\* what uploads/manual_links.json holds: a JSON object, its keys the decimal
\* strings of the landing indices of mapping, its values the flight indices
FileHolds(mapping) ==
    /\ uploads.manual_links_json # <<>>
    /\ DOMAIN uploads.manual_links_json[1] = {ToString(li) : li \in DOMAIN mapping}
    /\ \A li \in DOMAIN mapping : uploads.manual_links_json[1][ToString(li)] = mapping[li]

\* C30: once the first request of a run of the process has loaded the
\* persisted state, manual_overrides is an integer-to-integer mapping and it is
\* the mapping uploads/manual_links.json holds, which is the one the last
\* override request (of this run or of an earlier one) persisted; when the
\* file is absent the mapping is empty, and when uploads/config.json is absent
\* the cluster window is the one the process started with (10 when
\* LANDING_CLUSTER_MINUTES is not set).
C30_PersistLoadRoundTrip ==
    watcher_initialized =>
        /\ DOMAIN manual_overrides \subseteq Int
        /\ \A li \in DOMAIN manual_overrides : manual_overrides[li] \in Int
        /\ uploads.manual_links_json # <<>> => FileHolds(manual_overrides)
        /\ uploads.manual_links_json = <<>> => manual_overrides = EmptyDict
        /\ (uploads.config_json = <<>> /\ environ = <<>>) =>
              cluster_minutes = DefaultClusterMinutes
        /\ (uploads.config_json = <<>> /\ environ = <<"30">>) => cluster_minutes = 30

\* a run of the process that has made no override request holds, after its
\* first request, the override an earlier run persisted
C30_Witness ==
    /\ last.op = "init"
    /\ manual_overrides # EmptyDict
    /\ \E li \in DOMAIN manual_overrides : manual_overrides[li] = -1
    /\ FileHolds(manual_overrides)

-----------------------------------------------------------------------------
\* the positions of the landings of list cached_landings whose VS is a number
WithVs == {i \in 1..Len(cached_landings) : cached_landings[i].VS # <<>>}

WithVsOf(ac) == {i \in WithVs : cached_landings[i].norm_ac = ac}

RECURSIVE VsTotal(_)
VsTotal(positions) ==
    IF positions = {} THEN 0
    ELSE LET i == CHOOSE x \in positions : TRUE
         IN cached_landings[i].VS[1] + VsTotal(positions \ {i})

\* the fraction q is the mean of the VS values at the positions
IsMeanOf(q, positions) ==
    /\ q.den > 0
    /\ q.num * Cardinality(positions) = VsTotal(positions) * q.den

\* C31: summarise_landings returns the number of landings as count, the mean
\* over exactly the landings with a VS value (0 included, absent ones left
\* out) as mean_vs, and in avg_vs_per_aircraft an entry for exactly the
\* aircraft codes with at least one VS value, the mean of those values.
C31_SummariseLandings ==
    summary # <<>> =>
        /\ summary[1].count = Len(cached_landings)
        /\ WithVs # {} => IsMeanOf(summary[1].mean_vs, WithVs)
        /\ DOMAIN summary[1].avg_vs_per_aircraft =
              {cached_landings[i].norm_ac : i \in WithVs}
        /\ \A ac \in DOMAIN summary[1].avg_vs_per_aircraft :
              IsMeanOf(summary[1].avg_vs_per_aircraft[ac], WithVsOf(ac))

\* the summary of three landings: one without VS, one with VS 0 and one with
\* another value, the last two of different aircraft
C31_Witness ==
    /\ summary # <<>>
    /\ summary[1].count = 3
    /\ Cardinality(WithVs) = 2
    /\ \E i, j \in WithVs :
          /\ cached_landings[i].VS = <<0>>
          /\ cached_landings[j].VS = <<100>>
          /\ cached_landings[i].norm_ac # cached_landings[j].norm_ac
    /\ summary[1].mean_vs = [num |-> 50, den |-> 1]

-----------------------------------------------------------------------------
LinkingConfidences ==
    {"manual", "unique-date-aircraft", "sequence-assumed", "cluster-sequence",
     "cluster-assigned", "count-assigned"}

\* a result with a flight, its index and a linking confidence, or one with no
\* flight and "unmatched" or "ambiguous"
WellFormedResult(link) ==
    IF "flightIndex" \in DOMAIN link
    THEN /\ DOMAIN link = {"flight", "flightIndex", "linkConfidence"}
         /\ link.flightIndex \in FlightIndices
         /\ link.flight \in Range(Flights)
         /\ link.linkConfidence \in LinkingConfidences
    ELSE /\ DOMAIN link = {"flight", "linkConfidence"}
         /\ link.flight = None
         /\ link.linkConfidence \in {"unmatched", "ambiguous"}

\* C32: after recompute_links, landing_links has an entry for every index of
\* the landing list and for nothing else, and every entry is either without a
\* flight and "unmatched" or "ambiguous", or has a flight, a flightIndex and one
\* of the six linking confidences.
C32_OneResultPerLanding ==
    Computed =>
        /\ DOMAIN landing_links = LandingIndices
        /\ \A li \in DOMAIN landing_links : WellFormedResult(landing_links[li])

\* three landings have their results: one unmatched, one linked by hand, one
\* linked by a heuristic
C32_Witness ==
    /\ Computed
    /\ Len(Landings) = 3
    /\ \E a, b, c \in DOMAIN landing_links :
          /\ Confidence(a) = "unmatched"
          /\ Confidence(b) = "manual"
          /\ HasFlight(landing_links[c])
          /\ Confidence(c) # "manual"

-----------------------------------------------------------------------------
\* C33: the two published maps are inverse to each other: landing li is in
\* flight_to_landing_indices[fi] exactly when landing_links[li] has the
\* flightIndex fi, and then the flight record stored in landing_links[li] is
\* the record at position fi of the flight list.
C33_MapsInverse ==
    Computed =>
        /\ \A fi \in DOMAIN flight_to_landing_indices :
              \A li \in Range(flight_to_landing_indices[fi]) :
                  /\ li \in DOMAIN landing_links
                  /\ "flightIndex" \in DOMAIN landing_links[li]
                  /\ landing_links[li].flightIndex = fi
        /\ \A li \in DOMAIN landing_links :
              "flightIndex" \in DOMAIN landing_links[li] =>
                  /\ landing_links[li].flightIndex \in DOMAIN flight_to_landing_indices
                  /\ li \in Range(flight_to_landing_indices[landing_links[li].flightIndex])
                  /\ landing_links[li].flight = At(Flights, landing_links[li].flightIndex)

\* two flights have landings, one of them two, one landing by hand
C33_Witness ==
    /\ Computed
    /\ Cardinality(DOMAIN flight_to_landing_indices) = 2
    /\ \E fi \in DOMAIN flight_to_landing_indices :
          Len(flight_to_landing_indices[fi]) = 2
    /\ \E li \in DOMAIN landing_links : Confidence(li) = "manual"

-----------------------------------------------------------------------------
SameDayAndAircraft(li) ==
    /\ landing_links[li].flight.date = At(Landings, li).date
    /\ landing_links[li].flight.norm_ac = At(Landings, li).norm_ac

-----------------------------------------------------------------------------
\* the rule with the confidence conf has fired for the group key
Fired(key, conf) == \E li \in PoolLandings(key) : Confidence(li) = conf

\* the working landings of the group that are linked to the flight fi
Received(key, fi) ==
    {li \in PoolLandings(key) :
        HasFlight(landing_links[li]) /\ landing_links[li].flightIndex = fi}

\* C35: whenever the cluster-assigned rule or the count-assigned rule fires
\* for a group, every working landing of the group is linked to a flight with
\* that confidence (none is left "ambiguous"), and every working flight
\* receives exactly as many clusters (cluster-assigned) or landings
\* (count-assigned) as it declares.
C35_AssignedRulesLeaveNothing ==
    Computed =>
        \A key \in GroupKeys :
            /\ Fired(key, "cluster-assigned") =>
                  /\ \A li \in PoolLandings(key) :
                        HasFlight(landing_links[li]) /\ Confidence(li) = "cluster-assigned"
                  /\ \A fi \in PoolFlights(key) :
                        Cardinality({ClusterIndex(key, li) : li \in Received(key, fi)})
                            = At(Flights, fi).landings
            /\ Fired(key, "count-assigned") =>
                  /\ \A li \in PoolLandings(key) :
                        HasFlight(landing_links[li]) /\ Confidence(li) = "count-assigned"
                  /\ \A fi \in PoolFlights(key) :
                        Cardinality(Received(key, fi)) = At(Flights, fi).landings

\* the count-assigned rule has given two flights their one and two landings
C35_Witness ==
    /\ Computed
    /\ \E key \in GroupKeys :
          /\ Fired(key, "count-assigned")
          /\ Cardinality(PoolFlights(key)) = 2
          /\ \E fi \in PoolFlights(key) : Cardinality(Received(key, fi)) = 2

-----------------------------------------------------------------------------
\* the flight indices the entries of the link map links name
LinkedFlights(links) ==
    {links[li].flightIndex : li \in {k \in DOMAIN links : "flightIndex" \in DOMAIN links[k]}}

\* the two maps are a pair one call of recompute_links builds: index lists,
\* for exactly the flights links names, exactly the landings linked to each
PairOfOneRecompute(links, index) ==
    /\ DOMAIN index = LinkedFlights(links)
    /\ \A fi \in DOMAIN index :
          Range(index[fi]) =
              {li \in DOMAIN links :
                  "flightIndex" \in DOMAIN links[li] /\ links[li].flightIndex = fi}

\* C36: the landing_links and the flight_to_landing_indices a get_landing_data
\* response carries are the two results of one call of recompute_links, never
\* the link map of one call with the index of another.
C36_ResponseMapsOfOneRecompute ==
    \A t \in Threads :
        pc[t] = "gd_respond" =>
            PairOfOneRecompute(frame[t].resp.links, frame[t].resp.index)

-----------------------------------------------------------------------------
\* the threads that are inside init_watcher_if_configured
Initialising == {t \in Threads : pc[t] = "ewi_running"}

\* C37: with several first requests in flight, init_watcher_if_configured
\* returns at most once and one thread at a time is inside it; no thread is
\* inside it once it has returned; watcher_initialized is true only after it
\* has returned; and once watcher_initialized is true it stays true.
C37_InitialisedOnce ==
    [][/\ init_runs'.returned <= 1
       /\ Cardinality(Initialising') <= 1
       /\ init_runs'.returned = 1 => Initialising' = {}
       /\ watcher_initialized' => init_runs'.returned = 1
       /\ watcher_initialized => watcher_initialized']_vars

\* a request that saw the flag unset and waited for the lock finds, under the
\* lock, the flag set by the thread that ran init_watcher_if_configured after
\* an earlier call of it had raised
C37_Witness ==
    /\ watcher_initialized
    /\ init_runs = [started |-> 2, returned |-> 1, raised |-> 1]
    /\ \E t \in Threads : pc[t] = "ewi_recheck" /\ watcher_init_lock = <<t>>
    /\ manual_overrides # EmptyDict

-----------------------------------------------------------------------------
\* the landing-rate file that is watched: the file set as the source, or
\* LandingRate.log of the folder set as the source
WatchedFile(p) ==
    /\ landing_observer # <<>>
    /\ IF landing_rate_path # <<>> THEN landing_rate_path = <<p>>
       ELSE /\ landing_watched_folder = <<p.dir>>
            /\ p.base = LANDING_RATE_FILENAME

\* C38: when the watched landing-rate file, set as a file or through its
\* folder, is modified or created, the callback leaves cached_landings read
\* again from the file, the maps recomputed from it, and one more landing
\* update emitted, with that list.
C38_WatchedFileEventRefreshes ==
    [][\A p \in DiskPaths, landings \in RateLists :
          (/\ last'.op \in {"on_modified", "on_created"}
           /\ last'.arg = <<p>>
           /\ disk'[p] = <<landings>>
           /\ WatchedFile(p)) =>
              LET out == compute_links(Flights, landings, manual_overrides, cluster_minutes)
              IN /\ cached_landings' = landings
                 /\ landing_links' = out.landing_links
                 /\ flight_to_landing_indices' = out.flight_to_landing_indices
                 /\ emitted'.count = emitted.count + 1
                 /\ emitted'.payload[1].landings = landings]_vars

-----------------------------------------------------------------------------
\* C39: the landing list a response of get_landing_data or landing_rates_page
\* carries is the list its link map was computed from: every landing of the
\* list has its entry in the links, which are those recompute_links builds
\* from that list.
C39_ShownLandingsHaveLinks ==
    last.op \in {"get_landing_data", "landing_rates_page"} =>
        LET resp == last.arg[1]
        IN /\ \A li \in 0..Len(resp.landings) - 1 : li \in DOMAIN resp.links
           /\ resp.links = compute_links(Flights, resp.landings, manual_overrides,
                                         cluster_minutes).landing_links

-----------------------------------------------------------------------------
\* the place of the key in the order of last insertion or serving
LastUse(key) == CHOOSE i \in DOMAIN map_log.recent : map_log.recent[i] = key

\* C40: whenever no thread is inside a locked block the map cache holds at
\* most MAP_CACHE_MAX_ENTRIES entries, one for a key; an insertion that
\* exceeds the bound evicts the entry that was inserted or served least
\* recently; an entry older than MAP_CACHE_TTL_SECONDS is not returned: the
\* lookup removes it and the call computes the result, which is what it
\* answers with.
C40_MapCacheBoundedAndFresh ==
    [][/\ map_cache_lock' = <<>> =>
             /\ Len(map_cache') <= MAP_CACHE_MAX_ENTRIES
             /\ \A i, j \in DOMAIN map_cache' :
                   map_cache'[i].key = map_cache'[j].key => i = j
       /\ \A t \in Threads :
             (pc[t] = "bmd_evict" /\ Len(map_cache') < Len(map_cache)) =>
                 /\ Len(map_cache) = MAP_CACHE_MAX_ENTRIES + 1
                 /\ \E victim \in cache_keys(map_cache) :
                       /\ cache_keys(map_cache') = cache_keys(map_cache) \ {victim}
                       /\ victim # map_call[t][1]
                       /\ \A key \in cache_keys(map_cache) \ {victim} :
                             LastUse(victim) < LastUse(key)
       /\ \A t \in Threads :
             (/\ pc[t] = "bmd_lookup" /\ pc'[t] # "bmd_lookup"
              /\ cache_get(map_cache, map_call[t][1]) # <<>>) =>
                 IF now - cache_get(map_cache, map_call[t][1])[1].ts > MAP_CACHE_TTL_SECONDS
                 THEN /\ map_call[t][1] \notin cache_keys(map_cache')
                      /\ pc'[t] = "bmd_compute"
                      /\ map_log'.answer = map_log.answer
                 ELSE /\ pc'[t] = "idle"
                      /\ map_log'.answer[1].how = "cached"
       /\ map_log'.answer # <<>> =>
             map_log'.answer[1].at - map_log'.answer[1].ts <= MAP_CACHE_TTL_SECONDS]_vars

\* three keys have been inserted into a cache for two, so one was evicted,
\* and the last call was answered from the cache with an entry inserted
\* before the other entry of the cache and moved behind it by the serving
C40_Witness ==
    /\ map_cache_lock = <<>>
    /\ Len(map_cache) = MAP_CACHE_MAX_ENTRIES
    /\ map_cache[MAP_CACHE_MAX_ENTRIES].ts < map_cache[1].ts
    /\ Len(map_log.recent) = MAP_CACHE_MAX_ENTRIES + 1
    /\ map_log.answer # <<>>
    /\ map_log.answer[1].how = "cached"
    /\ map_log.answer[1].key = map_cache[MAP_CACHE_MAX_ENTRIES].key
    /\ map_log.answer[1].at - map_log.answer[1].ts = MAP_CACHE_TTL_SECONDS
====
